---- MODULE Spec2Model ----
(***************************************************************************)
(* Model of the configuration reconciler of the viewport configuration     *)
(* tool (src/src/viewport_configuration_tool/core.py,                      *)
(* class ViewportConfigurationManager).                                    *)
(*                                                                         *)
(* Text is a sequence of tokens.  A token is one character (" ", "=",      *)
(* "#", a digit, the line feed, ...) or one word of a prefix-free set of   *)
(* words made of letters and "_" (the key names, the file name parts).     *)
(* No word is a prefix of another token, so two texts are the same string  *)
(* exactly when they are the same token sequence, and the code-point order *)
(* of two strings is the lexicographic order of their tokens.              *)
(*                                                                         *)
(* A folder is a function from the names of the files it holds to their    *)
(* content: a file exists exactly when its name is in the DOMAIN.          *)
(***************************************************************************)
EXTENDS Integers, Sequences, FiniteSets, TLC

VARIABLES
    fs,                \* folder -> (file name -> content): the two folders on disk
    export_folder,     \* self.export_folder: None or Some(folder)
    game_resolutions,  \* self.game_resolutions: rom name -> <<width, height>>
    override_width,    \* self.override_width:  None or Some(int)
    override_height,   \* self.override_height: None or Some(int)
    override_x,        \* self.override_x:      None or Some(int)
    override_y,        \* self.override_y:      None or Some(int)
    last,              \* the last operation called: its name, arguments and result
    dat_file,          \* self.dat_file and what the file at that path holds
    game_info,         \* self.game_info: rom name -> GameInfo
    parse_log,         \* the lines parse_dat_file has passed to self.log
    progress,          \* the progress_callback invocations of the last call, in
                       \* order, each with what the item's target held just then
    system             \* the SystemConfig of the interactive session

vars == <<fs, export_folder, game_resolutions, override_width, override_height,
          override_x, override_y, last, dat_file, game_info, parse_log, progress,
          system>>

(***************************************************************************)
(* Optional values (Python None / a value).                                *)
(***************************************************************************)
None == <<>>

Some(v) == <<v>>

(***************************************************************************)
(* Bounds of the model.                                                    *)
(***************************************************************************)
\* the largest width/height passed to an operation or held by the catalog
MaxDim == 12

\* the largest x/y position passed to an operation
MaxPos == 3

(***************************************************************************)
(* Characters.                                                             *)
(***************************************************************************)
NL == "\n"

\* the characters str.strip() removes that can occur inside a line
Whitespace == {" ", "\t"}

Digits == <<"0", "1", "2", "3", "4", "5", "6", "7", "8", "9">>

\* every token of the model, in code-point order of the strings they stand for
CodeOrder ==
    <<"\t", "\n", " ", "\"", "#", "-",
      "0", "1", "2", "3", "4", "5", "6", "7", "8", "9", "=",
      "aspect_ratio_index", "custom_viewport_height", "custom_viewport_width",
      "custom_viewport_x", "custom_viewport_y", "input_driver", "udev",
      "video_shader">>

Rank(t) == CHOOSE i \in 1..Len(CodeOrder) : CodeOrder[i] = t

\* Python's str < str
RECURSIVE StrLess(_, _)
StrLess(a, b) ==
    IF b = <<>> THEN FALSE
    ELSE IF a = <<>> THEN TRUE
    ELSE IF Head(a) = Head(b) THEN StrLess(Tail(a), Tail(b))
    ELSE Rank(Head(a)) < Rank(Head(b))

(***************************************************************************)
(* str(int) as in the f-strings f'"{width}"'.                              *)
(***************************************************************************)
RECURSIVE NatToStr(_)
NatToStr(n) ==
    IF n < 10 THEN <<Digits[n + 1]>>
    ELSE NatToStr(n \div 10) \o <<Digits[(n % 10) + 1]>>

IntToStr(n) == IF n < 0 THEN <<"-">> \o NatToStr(0 - n) ELSE NatToStr(n)

Quoted(s) == <<"\"">> \o s \o <<"\"">>

(***************************************************************************)
(* str.strip(), "for line in f", str.split('=', 1).                        *)
(***************************************************************************)
RECURSIVE LStrip(_)
LStrip(s) ==
    IF s # <<>> /\ Head(s) \in Whitespace THEN LStrip(Tail(s)) ELSE s

RECURSIVE RStrip(_)
RStrip(s) ==
    IF s # <<>> /\ s[Len(s)] \in Whitespace
    THEN RStrip(SubSeq(s, 1, Len(s) - 1))
    ELSE s

Strip(s) == RStrip(LStrip(s))

\* index of the first occurrence of token t in s, 0 when there is none
FirstIndex(s, t) ==
    IF \E i \in 1..Len(s) : s[i] = t
    THEN CHOOSE i \in 1..Len(s) : s[i] = t /\ \A j \in 1..(i - 1) : s[j] # t
    ELSE 0

\* the lines of a text file, each without its line feed
RECURSIVE Lines(_)
Lines(content) ==
    IF content = <<>> THEN <<>>
    ELSE LET i == FirstIndex(content, NL)
         IN  IF i = 0 THEN <<content>>
             ELSE <<SubSeq(content, 1, i - 1)>>
                  \o Lines(SubSeq(content, i + 1, Len(content)))

(***************************************************************************)
(* Config records: a function from the keys present to their values.       *)
(***************************************************************************)
EmptyConfig == [k \in {} |-> <<>>]

SetKey(config, key, value) ==
    [k \in (DOMAIN config) \cup {key} |-> IF k = key THEN value ELSE config[k]]

DelKeys(config, keys) == [k \in (DOMAIN config) \ keys |-> config[k]]

aspect_ratio_index == <<"aspect_ratio_index">>

custom_viewport_x == <<"custom_viewport_x">>

custom_viewport_y == <<"custom_viewport_y">>

custom_viewport_width == <<"custom_viewport_width">>

custom_viewport_height == <<"custom_viewport_height">>

\* viewport_order with the size before the position
viewport_order_SizeFirst ==
    <<aspect_ratio_index, custom_viewport_width, custom_viewport_height,
      custom_viewport_x, custom_viewport_y>>

\* write_config_file: the order the viewport settings are written in
viewport_order ==
    <<aspect_ratio_index, custom_viewport_x, custom_viewport_y,
      custom_viewport_width, custom_viewport_height>>

\* remove_keys without the two position keys
remove_keys_NoPosition ==
    {custom_viewport_width, custom_viewport_height, aspect_ratio_index}

\* remove_rom_config: the keys it deletes
remove_keys ==
    {custom_viewport_width, custom_viewport_height, custom_viewport_x,
     custom_viewport_y, aspect_ratio_index}

\* remove_all_overrides: the keys it looks for and pops
remove_all_keys ==
    {custom_viewport_width, custom_viewport_height, aspect_ratio_index}

\* ReadLine keeping the blanks around the value
ReadLine_NoStrip(config, rawline) ==
    LET line == Strip(rawline)
        eq   == FirstIndex(line, "=")
    IN  IF eq # 0 /\ ~(line # <<>> /\ Head(line) = "#")
        THEN SetKey(config,
                    Strip(SubSeq(line, 1, eq - 1)),
                    SubSeq(line, eq + 1, Len(line)))
        ELSE config

\* one iteration of the loop of read_config_file
ReadLine(config, rawline) ==
    LET line == Strip(rawline)
        eq   == FirstIndex(line, "=")
    IN  IF eq # 0 /\ ~(line # <<>> /\ Head(line) = "#")
        THEN SetKey(config,
                    Strip(SubSeq(line, 1, eq - 1)),
                    Strip(SubSeq(line, eq + 1, Len(line))))
        ELSE config

RECURSIVE ReadLines(_, _)
ReadLines(config, lines) ==
    IF lines = <<>> THEN config
    ELSE ReadLines(ReadLine(config, Head(lines)), Tail(lines))

\* read_config_file on a folder's content: {} when the file does not exist
read_config_file(dir, config_path) ==
    IF config_path \in DOMAIN dir
    THEN ReadLines(EmptyConfig, Lines(dir[config_path]))
    ELSE EmptyConfig

\* sorted(): the keys of a set in ascending order
RECURSIVE Sorted(_)
Sorted(keys) ==
    IF keys = {} THEN <<>>
    ELSE LET m == CHOOSE k \in keys : \A j \in keys \ {k} : StrLess(k, j)
         IN  <<m>> \o Sorted(keys \ {m})

ConfigLine(key, value) == key \o <<" ", "=", " ">> \o value \o <<NL>>

RECURSIVE WriteKeys(_, _)
WriteKeys(config, keys) ==
    IF keys = <<>> THEN <<>>
    ELSE ConfigLine(Head(keys), config[Head(keys)]) \o WriteKeys(config, Tail(keys))

\* write_config_file without its second loop: only the viewport settings
write_config_file_NoRest(config) ==
    WriteKeys(config, SelectSeq(viewport_order, LAMBDA k : k \in DOMAIN config))

\* the bytes write_config_file writes
write_config_file(config) ==
    LET first == SelectSeq(viewport_order, LAMBDA k : k \in DOMAIN config)
        rest  == Sorted({k \in DOMAIN config :
                            \A i \in 1..Len(viewport_order) : viewport_order[i] # k})
    IN  WriteKeys(config, first) \o WriteKeys(config, rest)

(***************************************************************************)
(* Folders and paths.                                                      *)
(***************************************************************************)
rom_folder == "roms"

ExportDir == "export"

\* the output folder of a manager that ignores its export folder
output_folder_IgnoresExport == rom_folder

\* output_folder = self.export_folder if self.export_folder else self.rom_folder
output_folder == IF export_folder # None THEN export_folder[1] ELSE rom_folder

\* output_folder / f"{rom_name}.zip.cfg"
ConfigPath(rom_name) == rom_name \o <<".zip", ".cfg">>

\* Path.glob('*.zip'), Path.glob('*.zip.cfg'): the names with that ending
EndsWith(name, suffix) ==
    /\ Len(name) >= Len(suffix)
    /\ SubSeq(name, Len(name) - Len(suffix) + 1, Len(name)) = suffix

Glob(dir, suffix) == {n \in DOMAIN dir : EndsWith(n, suffix)}

\* Path.stem: the name without its last suffix
Stem(name) == IF Len(name) > 1 THEN SubSeq(name, 1, Len(name) - 1) ELSE name

\* open(path, 'w') ... write: the file is created or replaced
WriteFile(dir, name, content) ==
    [n \in (DOMAIN dir) \cup {name} |-> IF n = name THEN content ELSE dir[n]]

\* Path.unlink()
Unlink(dir, name) == [n \in (DOMAIN dir) \ {name} |-> dir[n]]

\* every order in which a set of files may be enumerated
Enumerations(S) ==
    {q \in [1..Cardinality(S) -> S] : \A i, j \in 1..Cardinality(S) : q[i] = q[j] => i = j}

(***************************************************************************)
(* The operations of ViewportConfigurationManager, as functions of the     *)
(* output folder's content.                                                *)
(***************************************************************************)
\* update_rom_config writing x and y only when they are given
update_rom_config_SkipsNullXY(dir, rom_name, width, height, x, y) ==
    LET config_path == ConfigPath(rom_name)
        c0 == read_config_file(dir, config_path)
        c1 == SetKey(c0, custom_viewport_width, Quoted(IntToStr(width)))
        c2 == SetKey(c1, custom_viewport_height, Quoted(IntToStr(height)))
        c3 == IF x # None
              THEN SetKey(c2, custom_viewport_x, Quoted(IntToStr(x[1]))) ELSE c2
        c4 == IF y # None
              THEN SetKey(c3, custom_viewport_y, Quoted(IntToStr(y[1]))) ELSE c3
        c5 == SetKey(c4, aspect_ratio_index, Quoted(<<"2", "3">>))
    IN  WriteFile(dir, config_path, write_config_file(c5))

\* update_rom_config: the output folder after the call
update_rom_config(dir, rom_name, width, height, x, y) ==
    LET config_path == ConfigPath(rom_name)
        c0 == read_config_file(dir, config_path)
        c1 == SetKey(c0, custom_viewport_width, Quoted(IntToStr(width)))
        c2 == SetKey(c1, custom_viewport_height, Quoted(IntToStr(height)))
        c3 == SetKey(c2, custom_viewport_x,
                     Quoted(IntToStr(IF x # None THEN x[1] ELSE 0)))
        c4 == SetKey(c3, custom_viewport_y,
                     Quoted(IntToStr(IF y # None THEN y[1] ELSE 0)))
        c5 == SetKey(c4, aspect_ratio_index, Quoted(<<"2", "3">>))
    IN  WriteFile(dir, config_path, write_config_file(c5))

\* remove_rom_config writing the emptied record back whatever the flag says
remove_rom_config_NeverDeletes(dir, rom_name, delete_if_empty) ==
    LET config_path == ConfigPath(rom_name)
        config0     == read_config_file(dir, config_path)
        removed_any == (DOMAIN config0) \cap remove_keys # {}
        config      == DelKeys(config0, remove_keys)
        is_empty    == DOMAIN config = {}
    IN  IF config_path \notin DOMAIN dir
        THEN [dir |-> dir, ret |-> <<FALSE, FALSE>>]
        ELSE IF ~removed_any
        THEN [dir |-> dir, ret |-> <<FALSE, FALSE>>]
        ELSE [dir |-> WriteFile(dir, config_path, write_config_file(config)),
              ret |-> <<TRUE, is_empty>>]

\* remove_rom_config deleting an emptied file whatever delete_if_empty says
remove_rom_config_IgnoresFlag(dir, rom_name, delete_if_empty) ==
    LET config_path == ConfigPath(rom_name)
        config0     == read_config_file(dir, config_path)
        removed_any == (DOMAIN config0) \cap remove_keys # {}
        config      == DelKeys(config0, remove_keys)
        is_empty    == DOMAIN config = {}
    IN  IF config_path \notin DOMAIN dir
        THEN [dir |-> dir, ret |-> <<FALSE, FALSE>>]
        ELSE IF ~removed_any
        THEN [dir |-> dir, ret |-> <<FALSE, FALSE>>]
        ELSE IF is_empty
        THEN [dir |-> Unlink(dir, config_path), ret |-> <<TRUE, is_empty>>]
        ELSE [dir |-> WriteFile(dir, config_path, write_config_file(config)),
              ret |-> <<TRUE, is_empty>>]

\* remove_rom_config rewriting the file when it found nothing to remove
remove_rom_config_AlwaysWrites(dir, rom_name, delete_if_empty) ==
    LET config_path == ConfigPath(rom_name)
        config0     == read_config_file(dir, config_path)
        removed_any == (DOMAIN config0) \cap remove_keys # {}
        config      == DelKeys(config0, remove_keys)
        is_empty    == DOMAIN config = {}
    IN  IF config_path \notin DOMAIN dir
        THEN [dir |-> dir, ret |-> <<FALSE, FALSE>>]
        ELSE IF ~removed_any
        THEN [dir |-> WriteFile(dir, config_path, write_config_file(config)),
              ret |-> <<FALSE, FALSE>>]
        ELSE IF is_empty /\ delete_if_empty
        THEN [dir |-> Unlink(dir, config_path), ret |-> <<TRUE, is_empty>>]
        ELSE [dir |-> WriteFile(dir, config_path, write_config_file(config)),
              ret |-> <<TRUE, is_empty>>]

\* remove_rom_config: the output folder after the call and the returned pair
remove_rom_config(dir, rom_name, delete_if_empty) ==
    LET config_path == ConfigPath(rom_name)
        config0     == read_config_file(dir, config_path)
        removed_any == (DOMAIN config0) \cap remove_keys # {}
        config      == DelKeys(config0, remove_keys)
        is_empty    == DOMAIN config = {}
    IN  IF config_path \notin DOMAIN dir
        THEN [dir |-> dir, ret |-> <<FALSE, FALSE>>]
        ELSE IF ~removed_any
        THEN [dir |-> dir, ret |-> <<FALSE, FALSE>>]
        ELSE IF is_empty /\ delete_if_empty
        THEN [dir |-> Unlink(dir, config_path), ret |-> <<TRUE, is_empty>>]
        ELSE [dir |-> WriteFile(dir, config_path, write_config_file(config)),
              ret |-> <<TRUE, is_empty>>]

\* delete_empty_config unlinking whatever file it finds
delete_empty_config_DeletesExisting(dir, rom_name) ==
    LET config_path == ConfigPath(rom_name)
    IN  IF config_path \notin DOMAIN dir
        THEN [dir |-> dir, ret |-> <<FALSE>>]
        ELSE [dir |-> Unlink(dir, config_path), ret |-> <<TRUE>>]

\* delete_empty_config: the folder after the call and the returned flag
delete_empty_config(dir, rom_name) ==
    LET config_path == ConfigPath(rom_name)
    IN  IF config_path \notin DOMAIN dir
        THEN [dir |-> dir, ret |-> <<FALSE>>]
        ELSE IF DOMAIN read_config_file(dir, config_path) # {}
        THEN [dir |-> dir, ret |-> <<FALSE>>]
        ELSE [dir |-> Unlink(dir, config_path), ret |-> <<TRUE>>]

\* remove_all_overrides: the loop over config_files, from the counts so far
RECURSIVE remove_all_loop(_, _, _, _)
remove_all_loop(dir, config_files, removed_count, skipped_count) ==
    IF config_files = <<>>
    THEN [dir |-> dir, ret |-> <<removed_count, skipped_count>>]
    ELSE LET config_file   == Head(config_files)
             config0       == read_config_file(dir, config_file)
             has_overrides == (DOMAIN config0) \cap remove_all_keys # {}
             config        == DelKeys(config0, remove_all_keys)
         IN  IF has_overrides
             THEN remove_all_loop(
                      IF DOMAIN config = {}
                      THEN Unlink(dir, config_file)
                      ELSE WriteFile(dir, config_file, write_config_file(config)),
                      Tail(config_files), removed_count + 1, skipped_count)
             ELSE remove_all_loop(dir, Tail(config_files),
                                  removed_count, skipped_count + 1)

\* process_roms testing the override for truth, so that 0 counts as not given
RECURSIVE process_loop_Truthy(_, _, _, _)
process_loop_Truthy(dir, rom_files, processed_count, skipped_count) ==
    IF rom_files = <<>>
    THEN [dir |-> dir, ret |-> <<processed_count, skipped_count>>]
    ELSE LET rom_name == Stem(Head(rom_files))
         IN  IF rom_name \in DOMAIN game_resolutions
             THEN LET dat_width  == game_resolutions[rom_name][1]
                      dat_height == game_resolutions[rom_name][2]
                      width  == IF override_width # None /\ override_width[1] # 0
                                THEN override_width[1] ELSE dat_width
                      height == IF override_height # None /\ override_height[1] # 0
                                THEN override_height[1] ELSE dat_height
                  IN  process_loop_Truthy(
                          update_rom_config(dir, rom_name, width, height,
                                            override_x, override_y),
                          Tail(rom_files), processed_count + 1, skipped_count)
             ELSE process_loop_Truthy(dir, Tail(rom_files),
                                      processed_count, skipped_count + 1)

\* process_roms looking the resolution up without testing for it: the batch
\* ends at the first identifier the catalog does not have
RECURSIVE process_loop_StopsAtUnknown(_, _, _, _)
process_loop_StopsAtUnknown(dir, rom_files, processed_count, skipped_count) ==
    IF rom_files = <<>>
    THEN [dir |-> dir, ret |-> <<processed_count, skipped_count>>]
    ELSE LET rom_name == Stem(Head(rom_files))
         IN  IF rom_name \in DOMAIN game_resolutions
             THEN LET dat_width  == game_resolutions[rom_name][1]
                      dat_height == game_resolutions[rom_name][2]
                      width  == IF override_width # None
                                THEN override_width[1] ELSE dat_width
                      height == IF override_height # None
                                THEN override_height[1] ELSE dat_height
                  IN  process_loop_StopsAtUnknown(
                          update_rom_config(dir, rom_name, width, height,
                                            override_x, override_y),
                          Tail(rom_files), processed_count + 1, skipped_count)
             ELSE [dir |-> dir, ret |-> <<processed_count, skipped_count>>]

\* process_roms: the loop over rom_files, from the counts so far
RECURSIVE process_loop(_, _, _, _)
process_loop(dir, rom_files, processed_count, skipped_count) ==
    IF rom_files = <<>>
    THEN [dir |-> dir, ret |-> <<processed_count, skipped_count>>]
    ELSE LET rom_name == Stem(Head(rom_files))
         IN  IF rom_name \in DOMAIN game_resolutions
             THEN LET dat_width  == game_resolutions[rom_name][1]
                      dat_height == game_resolutions[rom_name][2]
                      width  == IF override_width # None
                                THEN override_width[1] ELSE dat_width
                      height == IF override_height # None
                                THEN override_height[1] ELSE dat_height
                  IN  process_loop(
                          update_rom_config(dir, rom_name, width, height,
                                            override_x, override_y),
                          Tail(rom_files), processed_count + 1, skipped_count)
             ELSE process_loop(dir, Tail(rom_files),
                               processed_count, skipped_count + 1)

(***************************************************************************)
(* The progress callbacks of the two batch operations.  Each call is       *)
(* [idx, total, rom_name, seen]: the three arguments, and the content of   *)
(* the item's config target at the moment of the call (None: no file).     *)
(* The callback is the first statement of the loop body that touches the   *)
(* item, so it sees the folder as the items before it have left it.        *)
(***************************************************************************)
Lookup(dir, name) == IF name \in DOMAIN dir THEN Some(dir[name]) ELSE None

IsNotZip(t) == t # ".zip"

\* config_file.stem.replace('.zip', '')
RomNameOf(config_file) == SelectSeq(Stem(config_file), IsNotZip)

\* the callbacks of the loop of remove_all_overrides over config_files[idx..],
\* from the folder content dir
RECURSIVE remove_all_calls(_, _, _, _)
remove_all_calls(dir, config_files, idx, total) ==
    IF config_files = <<>> THEN <<>>
    ELSE LET config_file == Head(config_files)
         IN  <<[idx |-> idx, total |-> total, rom_name |-> RomNameOf(config_file),
                seen |-> Lookup(dir, config_file)]>>
             \o remove_all_calls(remove_all_loop(dir, <<config_file>>, 0, 0).dir,
                                 Tail(config_files), idx + 1, total)

\* the callbacks of process_roms numbering only the ROMs it processes
RECURSIVE process_calls_CountsProcessed(_, _, _, _)
process_calls_CountsProcessed(dir, rom_files, idx, total) ==
    IF rom_files = <<>> THEN <<>>
    ELSE LET rom_file == Head(rom_files)
             known == Stem(rom_file) \in DOMAIN game_resolutions
         IN  <<[idx |-> idx, total |-> total, rom_name |-> Stem(rom_file),
                seen |-> Lookup(dir, ConfigPath(Stem(rom_file)))]>>
             \o process_calls_CountsProcessed(
                    process_loop(dir, <<rom_file>>, 0, 0).dir,
                    Tail(rom_files), IF known THEN idx + 1 ELSE idx, total)

\* the callbacks of the loop of process_roms over rom_files[idx..], from the
\* folder content dir
RECURSIVE process_calls(_, _, _, _)
process_calls(dir, rom_files, idx, total) ==
    IF rom_files = <<>> THEN <<>>
    ELSE LET rom_file == Head(rom_files)
         IN  <<[idx |-> idx, total |-> total, rom_name |-> Stem(rom_file),
                seen |-> Lookup(dir, ConfigPath(Stem(rom_file)))]>>
             \o process_calls(process_loop(dir, <<rom_file>>, 0, 0).dir,
                              Tail(rom_files), idx + 1, total)

(***************************************************************************)
(* The catalog parser, parse_dat_file.                                     *)
(*                                                                         *)
(* A catalog file is [kind, games]: kind "unset" (no path given),          *)
(* "missing" (no file at the path), "malformed" (ElementTree rejects it;   *)
(* games is then the well-formed part before the error) or "xml"; games is *)
(* root.findall('.//game') in document order and machines the number of    *)
(* elements root.findall('.//machine') finds.  A game element is           *)
(* [name, display, video]: its name attribute and its first display and    *)
(* video descendants, each None or Some(..); a declaration is              *)
(* [width, height], the two attributes, each None or Some(text).           *)
(* GameInfo is modelled by its name, width and height; the descriptive     *)
(* fields do not bear on the resolution.                                   *)
(***************************************************************************)
\* Python's truth test of an attribute read with get(): None and "" are false
Falsy(attr) == attr = None \/ attr[1] = <<>>

DigitValue(d) == (CHOOSE i \in 1..Len(Digits) : Digits[i] = d) - 1

IsDigit(t) == \E i \in 1..Len(Digits) : Digits[i] = t

RECURSIVE DigitsToNat(_)
DigitsToNat(s) ==
    IF s = <<>> THEN 0
    ELSE 10 * DigitsToNat(SubSeq(s, 1, Len(s) - 1)) + DigitValue(s[Len(s)])

\* ParseInt storing 0 for a text that is no integer
ParseInt_ZeroOnError(text) ==
    LET t      == Strip(text)
        signed == t # <<>> /\ Head(t) \in {"-", "+"}
        digits == IF signed THEN Tail(t) ELSE t
    IN  IF digits # <<>> /\ \A i \in 1..Len(digits) : IsDigit(digits[i])
        THEN Some(IF signed /\ Head(t) = "-"
                  THEN 0 - DigitsToNat(digits) ELSE DigitsToNat(digits))
        ELSE Some(0)

\* int(text): Some(n), or None where Python raises ValueError
ParseInt(text) ==
    LET t      == Strip(text)
        signed == t # <<>> /\ Head(t) \in {"-", "+"}
        digits == IF signed THEN Tail(t) ELSE t
    IN  IF digits # <<>> /\ \A i \in 1..Len(digits) : IsDigit(digits[i])
        THEN Some(IF signed /\ Head(t) = "-"
                  THEN 0 - DigitsToNat(digits) ELSE DigitsToNat(digits))
        ELSE None

GameInfo(name, width, height) == [name |-> name, width |-> width, height |-> height]

\* the width and height texts the loop body ends up with, taking each from the
\* video declaration only where the display declaration left it out
SelectedSize_Merged(game) ==
    LET dw == IF game.display # None THEN game.display[1].width ELSE None
        dh == IF game.display # None THEN game.display[1].height ELSE None
    IN  IF game.video # None
        THEN [width  |-> IF Falsy(dw) THEN game.video[1].width ELSE dw,
              height |-> IF Falsy(dh) THEN game.video[1].height ELSE dh]
        ELSE [width |-> dw, height |-> dh]

\* the width and height texts the loop body ends up with (lines 98-113)
SelectedSize(game) ==
    LET dw == IF game.display # None THEN game.display[1].width ELSE None
        dh == IF game.display # None THEN game.display[1].height ELSE None
    IN  IF (Falsy(dw) \/ Falsy(dh)) /\ game.video # None
        THEN [width |-> game.video[1].width, height |-> game.video[1].height]
        ELSE [width |-> dw, height |-> dh]

\* the loop over root.findall('.//game'), from the maps and the log so far
RECURSIVE parse_games(_, _, _, _)
parse_games(games, resolutions, info, log) ==
    IF games = <<>>
    THEN [resolutions |-> resolutions, info |-> info, log |-> log]
    ELSE LET game == Head(games)
             size == SelectedSize(game)
         IN  IF Falsy(game.name)
             THEN parse_games(Tail(games), resolutions, info, log)
             ELSE IF ~Falsy(size.width) /\ ~Falsy(size.height)
             THEN LET w == ParseInt(size.width[1])
                      h == ParseInt(size.height[1])
                  IN  IF w # None /\ h # None
                      THEN parse_games(
                               Tail(games),
                               SetKey(resolutions, game.name[1], <<w[1], h[1]>>),
                               SetKey(info, game.name[1],
                                      GameInfo(game.name[1], w[1], h[1])),
                               log)
                      ELSE parse_games(
                               Tail(games), resolutions, info,
                               Append(log, <<"Warning: Invalid resolution for",
                                             game.name[1]>>))
             ELSE parse_games(Tail(games), resolutions, info, log)

\* the report counting the game elements only
ParseReport_GamesOnly(dat, resolutions) ==
    <<<<"Found games with resolution data", IntToStr(Cardinality(DOMAIN resolutions))>>>>
    \o IF Cardinality(DOMAIN resolutions) = 0 /\ Len(dat.games) > 0
       THEN <<<<"Warning: Found game entries but none have resolution data.",
                IntToStr(Len(dat.games))>>,
              <<"This DAT file may not contain display/video information.", <<>>>>,
              <<"Please use a DAT file that includes resolution data", <<>>>>>>
       ELSE <<>>

\* the lines logged after the loop: the count, and the diagnostic of a catalog
\* with game or machine entries none of which left a resolution
ParseReport(dat, resolutions) ==
    <<<<"Found games with resolution data", IntToStr(Cardinality(DOMAIN resolutions))>>>>
    \o IF Cardinality(DOMAIN resolutions) = 0 /\ Len(dat.games) + dat.machines > 0
       THEN <<<<"Warning: Found game entries but none have resolution data.",
                IntToStr(Len(dat.games) + dat.machines)>>,
              <<"This DAT file may not contain display/video information.", <<>>>>,
              <<"Please use a DAT file that includes resolution data", <<>>>>>>
       ELSE <<>>

\* parse_dat_file storing the games as it reads them, up to the error
parse_dat_file_Streaming(dat, resolutions, info) ==
    IF dat.kind = "unset"
    THEN [resolutions |-> resolutions, info |-> info, log |-> <<>>,
          ret |-> <<"raise", "ValueError">>]
    ELSE IF dat.kind = "missing"
    THEN [resolutions |-> resolutions, info |-> info,
          log |-> <<<<"Parsing DAT file", <<>>>>, <<"DAT file not found", <<>>>>>>,
          ret |-> <<"raise", "FileNotFoundError">>]
    ELSE LET r == parse_games(dat.games, resolutions, info,
                              <<<<"Parsing DAT file", <<>>>>>>)
         IN  IF dat.kind = "malformed"
             THEN [resolutions |-> r.resolutions, info |-> r.info,
                   log |-> Append(r.log, <<"Error parsing DAT file", <<>>>>),
                   ret |-> <<"raise", "ParseError">>]
             ELSE [resolutions |-> r.resolutions, info |-> r.info,
                   log |-> r.log \o ParseReport(dat, r.resolutions),
                   ret |-> <<"None">>]

\* parse_dat_file: the two maps and the log after the call, and how it ends
parse_dat_file(dat, resolutions, info) ==
    IF dat.kind = "unset"
    THEN [resolutions |-> resolutions, info |-> info, log |-> <<>>,
          ret |-> <<"raise", "ValueError">>]
    ELSE IF dat.kind = "missing"
    THEN [resolutions |-> resolutions, info |-> info,
          log |-> <<<<"Parsing DAT file", <<>>>>, <<"DAT file not found", <<>>>>>>,
          ret |-> <<"raise", "FileNotFoundError">>]
    ELSE IF dat.kind = "malformed"
    THEN [resolutions |-> resolutions, info |-> info,
          log |-> <<<<"Parsing DAT file", <<>>>>, <<"Error parsing DAT file", <<>>>>>>,
          ret |-> <<"raise", "ParseError">>]
    ELSE LET r == parse_games(dat.games, resolutions, info,
                              <<<<"Parsing DAT file", <<>>>>>>)
         IN  [resolutions |-> r.resolutions, info |-> r.info,
              log |-> r.log \o ParseReport(dat, r.resolutions),
              ret |-> <<"None">>]

(***************************************************************************)
(* The files the model starts from.                                        *)
(***************************************************************************)
\* a ROM archive (its content is never read)
RomArchive == <<"PK">>

pacman == <<"pacman">>

homebrew == <<"homebrew">>

dkong == <<"dkong">>

\* the identifiers update_rom_config and remove_rom_config are called with
RomNames == {pacman, homebrew}

\* the ROM archives of the ROM folder: dkong's is gone, its config may remain
RomFiles == {pacman \o <<".zip">>, homebrew \o <<".zip">>}

\* written by hand: a comment that looks like a setting, a blank line, an
\* unquoted viewport value behind a tab, an unquoted position, a value holding
\* "=", a key given twice, and no line feed at the end
HandWritten ==
    <<"#", " ", "custom_viewport_x", " ", "=", " ", "1", NL,
      NL,
      "\t", "custom_viewport_width", "=", "7", NL,
      "custom_viewport_y", " ", "=", " ", "5", NL,
      "video_shader", " ", "=", " ", " ", "udev", "=", "1", " ", NL,
      "input_driver", " ", "=", " ", "1", NL,
      "input_driver", " ", "=", " ", "\"", "udev", "\"">>

\* one unrelated setting and a comment
OtherOnly ==
    <<"input_driver", " ", "=", " ", "\"", "udev", "\"", NL,
      "#", " ", "udev", NL>>

\* no setting at all
CommentOnly == <<"#", " ", "udev", NL, NL>>

\* only the two position settings
PositionOnly ==
    <<"custom_viewport_x", " ", "=", " ", "\"", "3", "\"", NL,
      "custom_viewport_y", " ", "=", " ", "\"", "0", "\"", NL>>

\* the five viewport settings and nothing else
ViewportOnly ==
    <<"aspect_ratio_index", " ", "=", " ", "\"", "2", "3", "\"", NL,
      "custom_viewport_x", " ", "=", " ", "\"", "0", "\"", NL,
      "custom_viewport_y", " ", "=", " ", "\"", "0", "\"", NL,
      "custom_viewport_width", " ", "=", " ", "\"", "7", "\"", NL,
      "custom_viewport_height", " ", "=", " ", "\"", "1", "2", "\"", NL>>

EmptyFile == <<>>

EmptyDir == [n \in {} |-> <<>>]

\* a folder holding the given ROM archives and config targets (rom name -> content)
Folder(roms, configs) ==
    [n \in roms \cup {ConfigPath(r) : r \in DOMAIN configs} |->
        IF n \in roms THEN RomArchive
        ELSE configs[CHOOSE r \in DOMAIN configs : ConfigPath(r) = n]]

\* the config targets the output folder may start with
InitConfigs ==
    { EmptyDir,
      (pacman :> HandWritten) @@ (homebrew :> OtherOnly) @@ (dkong :> ViewportOnly),
      (pacman :> ViewportOnly) @@ (homebrew :> PositionOnly) @@ (dkong :> CommentOnly),
      (pacman :> OtherOnly) @@ (homebrew :> EmptyFile) @@ (dkong :> HandWritten) }

\* the identifier -> resolution map parse_dat_file has filled: homebrew has no entry
ParsedCatalog == (pacman :> <<320, 240>>) @@ (dkong :> <<224, 256>>)

\* the override quadruples a manager is constructed with
Overrides ==
    { <<None, None, None, None>>,
      <<Some(MaxDim), Some(MaxDim + 1), None, None>>,
      <<Some(0), None, None, Some(MaxPos)>>,
      <<None, Some(0), Some(MaxPos), None>> }

\* the <<width, height, x, y>> update_rom_config is called with
Calls ==
    { <<0, MaxDim, None, None>>,
      <<MaxDim, 0, Some(MaxPos), None>>,
      <<MaxDim + 1, MaxDim, Some(0), Some(MaxPos)>> }

NoCall == [op |-> "none", rom_name |-> <<>>, args |-> <<>>, ret |-> <<>>]

\* SystemConfig(): nothing set and no manager
NoSystem ==
    [dat_file |-> None, rom_folder |-> None, export_folder |-> None,
     override_width |-> None, override_height |-> None,
     override_x |-> None, override_y |-> None, manager |-> FALSE]

\* attribute texts of the catalogs
Text320 == <<"3", "2", "0">>
Text240 == <<"2", "4", "0">>
Text224 == <<"2", "2", "4">>
Text256 == <<"2", "5", "6">>

Decl(width, height) == Some([width |-> width, height |-> height])

\* the catalog the reconciler's manager has parsed: pacman declares a display,
\* dkong only a video element
ArcadeDat ==
    [kind  |-> "xml", machines |-> 0,
     games |-> <<[name |-> Some(pacman), display |-> Decl(Some(Text320), Some(Text240)),
                  video |-> None],
                 [name |-> Some(dkong), display |-> None,
                  video |-> Decl(Some(Text224), Some(Text256))]>>]

Init ==
    /\ export_folder \in {None, Some(ExportDir)}
    /\ \E configs \in InitConfigs :
          fs = IF export_folder # None
               THEN (rom_folder :> Folder(RomFiles, pacman :> OtherOnly))
                    @@ (ExportDir :> Folder({}, configs))
               ELSE (rom_folder :> Folder(RomFiles, configs))
                    @@ (ExportDir :> EmptyDir)
    /\ game_resolutions = ParsedCatalog
    /\ dat_file = ArcadeDat
    /\ game_info = parse_dat_file(ArcadeDat, EmptyConfig, EmptyConfig).info
    /\ parse_log = parse_dat_file(ArcadeDat, EmptyConfig, EmptyConfig).log
    /\ \E o \in Overrides :
          /\ override_width = o[1]
          /\ override_height = o[2]
          /\ override_x = o[3]
          /\ override_y = o[4]
    /\ last = NoCall
    /\ progress = <<>>
    /\ system = NoSystem

Manager == <<export_folder, game_resolutions, override_width, override_height,
             override_x, override_y, dat_file, game_info, parse_log>>

(***************************************************************************)
(* The calls.                                                              *)
(***************************************************************************)
\* where the output folder does not exist, open(config_path, 'w') raises
UpdateRomConfig(rom_name, width, height, x, y) ==
    /\ IF output_folder \in DOMAIN fs
       THEN /\ fs' = [fs EXCEPT ![output_folder] =
                         update_rom_config(@, rom_name, width, height, x, y)]
            /\ last' = [op |-> "update_rom_config", rom_name |-> rom_name,
                        args |-> <<width, height, x, y>>, ret |-> <<>>]
       ELSE /\ fs' = fs
            /\ last' = [op |-> "update_rom_config", rom_name |-> rom_name,
                        args |-> <<width, height, x, y>>,
                        ret |-> <<"raise", "FileNotFoundError">>]
    /\ progress' = <<>>
    /\ UNCHANGED <<Manager, system>>

\* where the output folder does not exist, config_path.exists() is false
RemoveRomConfig(rom_name, delete_if_empty) ==
    LET r == IF output_folder \in DOMAIN fs
             THEN remove_rom_config(fs[output_folder], rom_name, delete_if_empty)
             ELSE [dir |-> EmptyDir, ret |-> <<FALSE, FALSE>>]
    IN  /\ fs' = IF output_folder \in DOMAIN fs
                 THEN [fs EXCEPT ![output_folder] = r.dir] ELSE fs
        /\ last' = [op |-> "remove_rom_config", rom_name |-> rom_name,
                    args |-> <<delete_if_empty>>, ret |-> r.ret]
        /\ progress' = <<>>
        /\ UNCHANGED <<Manager, system>>

\* where the output folder does not exist, config_path.exists() is false
DeleteEmptyConfig(rom_name) ==
    LET r == IF output_folder \in DOMAIN fs
             THEN delete_empty_config(fs[output_folder], rom_name)
             ELSE [dir |-> EmptyDir, ret |-> <<FALSE>>]
    IN  /\ fs' = IF output_folder \in DOMAIN fs
                 THEN [fs EXCEPT ![output_folder] = r.dir] ELSE fs
        /\ last' = [op |-> "delete_empty_config", rom_name |-> rom_name,
                    args |-> <<>>, ret |-> r.ret]
        /\ progress' = <<>>
        /\ UNCHANGED <<Manager, system>>

\* self.get_rom_files(): [] where the ROM folder does not exist, else
\* list(self.rom_folder.glob('*.zip'))
get_rom_files ==
    IF rom_folder \in DOMAIN fs
    THEN Enumerations(Glob(fs[rom_folder], <<".zip">>))
    ELSE {<<>>}

\* the ROMs the loop gets through: all of them, or, where the output folder
\* does not exist, those up to the first one with a resolution, whose
\* update_rom_config raises
Reached(rom_files) ==
    IF output_folder \in DOMAIN fs
       \/ \A i \in 1..Len(rom_files) : Stem(rom_files[i]) \notin DOMAIN game_resolutions
    THEN rom_files
    ELSE SubSeq(rom_files, 1,
                CHOOSE i \in 1..Len(rom_files) :
                    /\ Stem(rom_files[i]) \in DOMAIN game_resolutions
                    /\ \A j \in 1..(i - 1) :
                          Stem(rom_files[j]) \notin DOMAIN game_resolutions)

\* where the output folder does not exist, the first update_rom_config of the
\* loop raises and process_roms with it; ROMs without a resolution are only
\* counted
ProcessRoms(progress_callback) ==
    \E rom_files \in get_rom_files :
        LET r == IF output_folder \in DOMAIN fs
                 THEN process_loop(fs[output_folder], rom_files, 0, 0)
                 ELSE IF \E i \in 1..Len(rom_files) :
                            Stem(rom_files[i]) \in DOMAIN game_resolutions
                 THEN [dir |-> EmptyDir, ret |-> <<"raise", "FileNotFoundError">>]
                 ELSE [dir |-> EmptyDir, ret |-> <<0, Len(rom_files)>>]
        IN  /\ fs' = IF output_folder \in DOMAIN fs
                     THEN [fs EXCEPT ![output_folder] = r.dir] ELSE fs
            /\ last' = [op |-> "process_roms", rom_name |-> <<>>,
                        args |-> <<progress_callback>>, ret |-> r.ret]
            /\ progress' =
                  IF progress_callback
                  THEN process_calls(IF output_folder \in DOMAIN fs
                                     THEN fs[output_folder] ELSE EmptyDir,
                                     Reached(rom_files), 1, Len(rom_files))
                  ELSE <<>>
            /\ UNCHANGED <<Manager, system>>

\* config_files = list(output_folder.glob('*.zip.cfg')); where the output
\* folder does not exist the call returns (0, 0) at once
RemoveAllOverrides(progress_callback) ==
    IF output_folder \in DOMAIN fs
    THEN \E config_files \in Enumerations(Glob(fs[output_folder], <<".zip", ".cfg">>)) :
            LET r == remove_all_loop(fs[output_folder], config_files, 0, 0)
            IN  /\ fs' = [fs EXCEPT ![output_folder] = r.dir]
                /\ last' = [op |-> "remove_all_overrides", rom_name |-> <<>>,
                            args |-> <<progress_callback>>, ret |-> r.ret]
                /\ progress' =
                      IF progress_callback
                      THEN remove_all_calls(fs[output_folder], config_files,
                                            1, Len(config_files))
                      ELSE <<>>
                /\ UNCHANGED <<Manager, system>>
    ELSE /\ fs' = fs
         /\ last' = [op |-> "remove_all_overrides", rom_name |-> <<>>,
                     args |-> <<progress_callback>>, ret |-> <<0, 0>>]
         /\ progress' = <<>>
         /\ UNCHANGED <<Manager, system>>

Next ==
    \/ \E rom_name \in RomNames, c \in Calls :
          UpdateRomConfig(rom_name, c[1], c[2], c[3], c[4])
    \/ \E rom_name \in RomNames, delete_if_empty \in BOOLEAN :
          RemoveRomConfig(rom_name, delete_if_empty)
    \/ \E rom_name \in RomNames : DeleteEmptyConfig(rom_name)
    \/ ProcessRoms(FALSE)
    \/ RemoveAllOverrides(FALSE)

Spec == Init /\ [][Next]_vars

(***************************************************************************)
(* The batch operations with and without a progress callback, on a manager *)
(* without overrides.                                                      *)
(***************************************************************************)
ProgressInit ==
    /\ export_folder \in {None, Some(ExportDir)}
    /\ \E configs \in InitConfigs :
          fs = IF export_folder # None
               THEN (rom_folder :> Folder(RomFiles, pacman :> OtherOnly))
                    @@ (ExportDir :> Folder({}, configs))
               ELSE (rom_folder :> Folder(RomFiles, configs))
                    @@ (ExportDir :> EmptyDir)
    /\ game_resolutions = ParsedCatalog
    /\ dat_file = ArcadeDat
    /\ game_info = parse_dat_file(ArcadeDat, EmptyConfig, EmptyConfig).info
    /\ parse_log = parse_dat_file(ArcadeDat, EmptyConfig, EmptyConfig).log
    /\ override_width = None
    /\ override_height = None
    /\ override_x = None
    /\ override_y = None
    /\ last = NoCall
    /\ progress = <<>>
    /\ system = NoSystem

ProgressNext ==
    \/ \E progress_callback \in BOOLEAN : ProcessRoms(progress_callback)
    \/ \E progress_callback \in BOOLEAN : RemoveAllOverrides(progress_callback)
    \/ \E rom_name \in RomNames : UpdateRomConfig(rom_name, MaxDim, MaxDim, None, None)
    \/ \E rom_name \in RomNames : RemoveRomConfig(rom_name, TRUE)

ProgressSpec == ProgressInit /\ [][ProgressNext]_vars

(***************************************************************************)
(* The catalog parser on its own: a manager just constructed on some       *)
(* catalog file, and parse_dat_file called on it.  Within one catalog the  *)
(* named games carry distinct names (the name is the catalog's key).       *)
(***************************************************************************)
MaxGames == 2

Names == <<pacman, dkong, homebrew>>

DisplayDecls ==
    { None,
      Decl(Some(Text320), Some(Text240)),
      Decl(Some(<<"2", "2", "4", "p", "x">>), Some(Text256)),
      Decl(Some(Text320), None),
      Decl(Some(<<>>), Some(Text240)),
      Decl(Some(<<"-", "1">>), Some(<<" ", "2", "5", "6">>)) }

VideoDecls ==
    { None,
      Decl(Some(Text224), Some(Text256)),
      Decl(Some(Text224), Some(<<"2", "5", "x">>)),
      Decl(None, Some(Text256)) }

\* the game elements a catalog may hold in its n-th place: the n-th name with
\* any pair of declarations, and an element without a name or with an empty one
GamesAt(n) ==
    { [name |-> Some(Names[n]), display |-> display, video |-> video] :
        display \in DisplayDecls, video \in VideoDecls }
    \cup { [name |-> name, display |-> Decl(Some(Text320), Some(Text240)), video |-> None] :
             name \in {None, Some(<<>>)} }

RECURSIVE GameLists(_)
GameLists(n) ==
    IF n = 0 THEN {<<>>}
    ELSE { Append(games, game) : games \in GameLists(n - 1), game \in GamesAt(n) }

DatFiles ==
    {[kind |-> "unset", games |-> <<>>, machines |-> 0],
     [kind |-> "missing", games |-> <<>>, machines |-> 0]}
    \cup {[kind |-> "malformed", games |-> games, machines |-> 0] :
             games \in GameLists(0) \cup GameLists(1)}
    \cup {[kind |-> "xml", games |-> games, machines |-> 0] :
             games \in UNION {GameLists(n) : n \in 0..MaxGames}}
    \cup {[kind |-> "xml", games |-> games, machines |-> 1] :
             games \in GameLists(0) \cup GameLists(1)}

CatalogInit ==
    /\ dat_file \in DatFiles
    /\ game_resolutions = EmptyConfig
    /\ game_info = EmptyConfig
    /\ parse_log = <<>>
    /\ export_folder = None
    /\ fs = (rom_folder :> Folder(RomFiles, EmptyDir)) @@ (ExportDir :> EmptyDir)
    /\ override_width = None
    /\ override_height = None
    /\ override_x = None
    /\ override_y = None
    /\ last = NoCall
    /\ progress = <<>>
    /\ system = NoSystem

ParseDatFile ==
    LET r == parse_dat_file(dat_file, game_resolutions, game_info)
    IN  /\ game_resolutions' = r.resolutions
        /\ game_info' = r.info
        /\ parse_log' = r.log
        /\ last' = [op |-> "parse_dat_file", rom_name |-> <<>>, args |-> <<>>,
                    ret |-> r.ret]
        /\ progress' = <<>>
        /\ UNCHANGED <<system, fs, export_folder, override_width, override_height,
                       override_x, override_y, dat_file>>

CatalogNext == ParseDatFile

CatalogSpec == CatalogInit /\ [][CatalogNext]_vars

(***************************************************************************)
(* The archive manager, backup_configs and restore_configs.                *)
(*                                                                         *)
(* A path is <<folder, name>>.  A zip archive is the token "PK" followed   *)
(* by its members in the order they were written, each <<name, content>>;  *)
(* any other content is not an archive.  A ROM archive is an archive       *)
(* without members.                                                        *)
(***************************************************************************)
Exists(files, path) == path[1] \in DOMAIN files /\ path[2] \in DOMAIN files[path[1]]

\* zipfile.ZipFile(path, 'r') accepts the content
IsZip(content) == content # <<>> /\ Head(content) = "PK"

Members(content) == Tail(content)

\* zipf.write(config_file, config_file.name) for each config file in turn
ZipArchive(dir, config_files) ==
    <<"PK">> \o [i \in 1..Len(config_files) |-> <<config_files[i], dir[config_files[i]]>>]

\* the filter keeping only the configs of ROMs, the names ending in .zip.cfg
RECURSIVE CfgMembers_ZipCfgOnly(_)
CfgMembers_ZipCfgOnly(members) ==
    IF members = <<>> THEN <<>>
    ELSE IF EndsWith(Head(members)[1], <<".zip", ".cfg">>)
    THEN <<Head(members)[1]>> \o CfgMembers_ZipCfgOnly(Tail(members))
    ELSE CfgMembers_ZipCfgOnly(Tail(members))

\* zipf.namelist() filtered by f.endswith('.cfg'), in archive order
RECURSIVE CfgMembers(_)
CfgMembers(members) ==
    IF members = <<>> THEN <<>>
    ELSE IF EndsWith(Head(members)[1], <<".cfg">>)
    THEN <<Head(members)[1]>> \o CfgMembers(Tail(members))
    ELSE CfgMembers(Tail(members))

\* what zipf.extract(filename, ...) writes: the archive's last member of that name
MemberContent(members, filename) ==
    LET i == CHOOSE i \in 1..Len(members) :
                 /\ members[i][1] = filename
                 /\ \A j \in (i + 1)..Len(members) : members[j][1] # filename
    IN  members[i][2]

\* f"config_backup_{timestamp}.zip"
DefaultBackupName(timestamp) == <<"config_backup_", timestamp, ".zip">>

\* backup_configs always writing the archive, config files or not
backup_configs_WritesEmpty(files, config_files, backup_path, timestamp) ==
    LET config_folder == output_folder
        path == IF backup_path = None
                THEN <<config_folder, DefaultBackupName(timestamp)>>
                ELSE backup_path[1]
    IN  IF config_folder \notin DOMAIN files
        THEN [files |-> files,
              ret |-> <<FALSE, None, Some("Config folder not found")>>]
        ELSE IF path[1] \notin DOMAIN files
        THEN [files |-> files, ret |-> <<FALSE, None, Some("Backup failed")>>]
        ELSE [files |-> [files EXCEPT ![path[1]] =
                            WriteFile(@, path[2],
                                      ZipArchive(files[config_folder], config_files))],
              ret |-> IF config_files = <<>>
                      THEN <<FALSE, None, Some("No config files found to backup")>>
                      ELSE <<TRUE, Some(path), None>>]

\* backup_configs with config_files = list(config_folder.glob('*.cfg')) in the
\* order given: the files after the call and the returned triple
backup_configs(files, config_files, backup_path, timestamp) ==
    LET config_folder == output_folder
        path == IF backup_path = None
                THEN <<config_folder, DefaultBackupName(timestamp)>>
                ELSE backup_path[1]
    IN  IF config_folder \notin DOMAIN files
        THEN [files |-> files,
              ret |-> <<FALSE, None, Some("Config folder not found")>>]
        ELSE IF config_files = <<>>
        THEN [files |-> files,
              ret |-> <<FALSE, None, Some("No config files found to backup")>>]
        ELSE IF path[1] \notin DOMAIN files
        THEN [files |-> files, ret |-> <<FALSE, None, Some("Backup failed")>>]
        ELSE [files |-> [files EXCEPT ![path[1]] =
                            WriteFile(@, path[2],
                                      ZipArchive(files[config_folder], config_files))],
              ret |-> <<TRUE, Some(path), None>>]

\* the restore loop extracting whether the target exists or not
RECURSIVE restore_loop_AlwaysExtracts(_, _, _, _, _, _)
restore_loop_AlwaysExtracts(dir, members, cfg_files, overwrite, restored_count, skipped_count) ==
    IF cfg_files = <<>>
    THEN [dir |-> dir, ret |-> <<restored_count, skipped_count, None>>]
    ELSE LET filename == Head(cfg_files)
         IN  IF filename \in DOMAIN dir /\ ~overwrite
             THEN restore_loop_AlwaysExtracts(
                      WriteFile(dir, filename, MemberContent(members, filename)),
                      members, Tail(cfg_files), overwrite,
                      restored_count, skipped_count + 1)
             ELSE restore_loop_AlwaysExtracts(
                      WriteFile(dir, filename, MemberContent(members, filename)),
                      members, Tail(cfg_files), overwrite,
                      restored_count + 1, skipped_count)

\* the loop over cfg_files, on the config folder's content
RECURSIVE restore_loop(_, _, _, _, _, _)
restore_loop(dir, members, cfg_files, overwrite, restored_count, skipped_count) ==
    IF cfg_files = <<>>
    THEN [dir |-> dir, ret |-> <<restored_count, skipped_count, None>>]
    ELSE LET filename == Head(cfg_files)
         IN  IF filename \in DOMAIN dir /\ ~overwrite
             THEN restore_loop(dir, members, Tail(cfg_files), overwrite,
                               restored_count, skipped_count + 1)
             ELSE restore_loop(
                      WriteFile(dir, filename, MemberContent(members, filename)),
                      members, Tail(cfg_files), overwrite,
                      restored_count + 1, skipped_count)

\* restore_configs extracting before it looks whether the archive holds a config
restore_configs_ExtractsAll(files, backup_path, overwrite) ==
    LET config_folder == output_folder
        content == files[backup_path[1]][backup_path[2]]
        names == [i \in 1..Len(Members(content)) |-> Members(content)[i][1]]
        r == restore_loop(files[config_folder], Members(content), names, TRUE, 0, 0)
    IN  IF config_folder \notin DOMAIN files
        THEN [files |-> files, ret |-> <<0, 0, Some("Config folder not found")>>]
        ELSE IF ~Exists(files, backup_path)
        THEN [files |-> files, ret |-> <<0, 0, Some("Backup file not found")>>]
        ELSE IF ~IsZip(content)
        THEN [files |-> files, ret |-> <<0, 0, Some("Invalid backup file")>>]
        ELSE IF CfgMembers(Members(content)) = <<>>
        THEN [files |-> [files EXCEPT ![config_folder] = r.dir],
              ret |-> <<0, 0, Some("No config files found in backup")>>]
        ELSE LET q == restore_loop(files[config_folder], Members(content),
                                   CfgMembers(Members(content)), overwrite, 0, 0)
             IN  [files |-> [files EXCEPT ![config_folder] = q.dir], ret |-> q.ret]

\* restore_configs: the files after the call and the returned triple
restore_configs(files, backup_path, overwrite) ==
    LET config_folder == output_folder
        content == files[backup_path[1]][backup_path[2]]
    IN  IF config_folder \notin DOMAIN files
        THEN [files |-> files, ret |-> <<0, 0, Some("Config folder not found")>>]
        ELSE IF ~Exists(files, backup_path)
        THEN [files |-> files, ret |-> <<0, 0, Some("Backup file not found")>>]
        ELSE IF ~IsZip(content)
        THEN [files |-> files, ret |-> <<0, 0, Some("Invalid backup file")>>]
        ELSE IF CfgMembers(Members(content)) = <<>>
        THEN [files |-> files, ret |-> <<0, 0, Some("No config files found in backup")>>]
        ELSE LET r == restore_loop(files[config_folder], Members(content),
                                   CfgMembers(Members(content)), overwrite, 0, 0)
             IN  [files |-> [files EXCEPT ![config_folder] = r.dir], ret |-> r.ret]

(***************************************************************************)
(* The archive manager together with the reconciler: a manager whose       *)
(* config folder is missing, holds no config, or holds two, and a folder   *)
(* of backups beside it.                                                   *)
(***************************************************************************)
BackupDir == "backups"

Timestamps == {"20240101_120000"}

retroarch_cfg == <<"retroarch", ".cfg">>

saved_zip == <<"saved", ".zip">>

foreign_zip == <<"foreign", ".zip">>

notes_zip == <<"notes", ".zip">>

docs_zip == <<"docs", ".zip">>

\* an archive made elsewhere: a config of pacman, a file that is no config, a
\* plain config, and a second member under pacman's name
ForeignArchive ==
    <<"PK",
      <<ConfigPath(pacman), ViewportOnly>>,
      <<<<"readme", ".txt">>, CommentOnly>>,
      <<retroarch_cfg, PositionOnly>>,
      <<ConfigPath(pacman), PositionOnly>>>>

\* an archive that holds no config
DocsArchive == <<"PK", <<<<"readme", ".txt">>, CommentOnly>>>>

\* the folder of backups: the two archives and a text file named like one
Backups ==
    (foreign_zip :> ForeignArchive) @@ (docs_zip :> DocsArchive)
    @@ (notes_zip :> CommentOnly)

\* the config folder with its two configs, one of a ROM and one plain
SavedConfigs(roms) ==
    WriteFile(Folder(roms, pacman :> HandWritten), retroarch_cfg, OtherOnly)

ArchiveInit ==
    /\ export_folder \in {None, Some(ExportDir)}
    /\ \E scenario \in {"missing", "empty", "configs"} :
          fs = (BackupDir :> Backups)
               @@ IF export_folder # None
                  THEN (rom_folder :> Folder(RomFiles, pacman :> OtherOnly))
                       @@ IF scenario = "missing" THEN <<>>
                          ELSE IF scenario = "empty" THEN (ExportDir :> EmptyDir)
                          ELSE (ExportDir :> SavedConfigs({}))
                  ELSE (ExportDir :> EmptyDir)
                       @@ IF scenario = "missing" THEN <<>>
                          ELSE IF scenario = "empty"
                          THEN (rom_folder :> Folder(RomFiles, EmptyDir))
                          ELSE (rom_folder :> SavedConfigs(RomFiles))
    /\ game_resolutions = ParsedCatalog
    /\ dat_file = ArcadeDat
    /\ game_info = parse_dat_file(ArcadeDat, EmptyConfig, EmptyConfig).info
    /\ parse_log = parse_dat_file(ArcadeDat, EmptyConfig, EmptyConfig).log
    /\ override_width = None
    /\ override_height = None
    /\ override_x = None
    /\ override_y = None
    /\ last = NoCall
    /\ progress = <<>>
    /\ system = NoSystem

\* the backup_path arguments: none, and a path in a folder that does not exist
BackupTargets == {None, Some(<<"nowhere", saved_zip>>)}

\* the backup_path arguments of restore_configs: the archives above, a ROM
\* archive, and where backup_configs puts its archive by default
RestoreSources ==
    {<<BackupDir, saved_zip>>, <<BackupDir, foreign_zip>>, <<BackupDir, notes_zip>>,
     <<BackupDir, docs_zip>>, <<rom_folder, pacman \o <<".zip">>>>}
    \cup {<<output_folder, DefaultBackupName(timestamp)>> : timestamp \in Timestamps}

BackupConfigs(backup_path, timestamp) ==
    \E config_files \in IF output_folder \in DOMAIN fs
                        THEN Enumerations(Glob(fs[output_folder], <<".cfg">>))
                        ELSE {<<>>} :
        LET r == backup_configs(fs, config_files, backup_path, timestamp)
        IN  /\ fs' = r.files
            /\ last' = [op |-> "backup_configs", rom_name |-> <<>>,
                        args |-> <<backup_path>>, ret |-> r.ret]
            /\ progress' = <<>>
            /\ UNCHANGED <<Manager, system>>

RestoreConfigs(backup_path, overwrite) ==
    LET r == restore_configs(fs, backup_path, overwrite)
    IN  /\ fs' = r.files
        /\ last' = [op |-> "restore_configs", rom_name |-> <<>>,
                    args |-> <<backup_path, overwrite>>, ret |-> r.ret]
        /\ progress' = <<>>
        /\ UNCHANGED <<Manager, system>>

ArchiveNext ==
    \/ \E backup_path \in BackupTargets, timestamp \in Timestamps :
          BackupConfigs(backup_path, timestamp)
    \/ \E backup_path \in RestoreSources, overwrite \in BOOLEAN :
          RestoreConfigs(backup_path, overwrite)
    \/ UpdateRomConfig(pacman, MaxDim, MaxDim, None, None)
    \/ \E delete_if_empty \in BOOLEAN : RemoveRomConfig(pacman, delete_if_empty)
    \/ ProcessRoms(FALSE)
    \/ RemoveAllOverrides(FALSE)

ArchiveSpec == ArchiveInit /\ [][ArchiveNext]_vars


(***************************************************************************)
(* The command line, main_cli of cli.py.                                   *)
(*                                                                         *)
(* argv is [fbneo, fbneo_override, mame, mame_override]: whether --fbneo   *)
(* and --mame name a system (an existing catalog and ROM folder), and the  *)
(* integers behind --fbneo-override and --mame-override, None where the    *)
(* option is not given.  The run ends <<"return", status, managers>> or    *)
(* <<"raise", exception, managers>>, managers being the override           *)
(* quadruples the managers were constructed with, in order.                *)
(***************************************************************************)
MaxValues == 5

mame_folder == "mame_roms"

\* metavar=('WIDTH', 'HEIGHT', '[X]', '[Y]') of the two override options
OverrideMetavar == <<"WIDTH", "HEIGHT", "[X]", "[Y]">>

\* argparse's add_argument formats the new option's arguments at once: for
\* nargs='+' that is '%s [%s ...]' % metavar, which takes a tuple of exactly
\* two names; for any other tuple the TypeError is turned into
\* ValueError("length of metavar tuple does not match nargs")
add_argument(nargs, metavar) ==
    IF nargs = "+" /\ Len(metavar) # 2
    THEN <<"raise", "ValueError">>
    ELSE <<"ok">>

\* the quadruple read from the values of an override option, and whether the
\* error is printed: the `elif` is reached only with fewer than four values
cli_override(values) ==
    IF values = None
    THEN [quad |-> <<None, None, None, None>>, error |-> FALSE]
    ELSE LET v == values[1]
             n == Len(v)
         IN  [quad  |-> <<IF n >= 2 THEN Some(v[1]) ELSE None,
                          IF n >= 2 THEN Some(v[2]) ELSE None,
                          IF n >= 4 THEN Some(v[3]) ELSE None,
                          IF n >= 4 THEN Some(v[4]) ELSE None>>,
              error |-> ~(n >= 4) /\ n \notin {2, 4}]

\* manager.parse_dat_file(); manager.process_roms() of a manager constructed
\* with the quadruple and no export folder: every ROM of the catalog gets its
\* config, the others are skipped (the files are distinct, so the order of
\* the glob does not show in the folder)
RECURSIVE process_roms_with(_, _, _, _)
process_roms_with(dir, rom_files, resolutions, quad) ==
    IF rom_files = {} THEN dir
    ELSE LET rom_file == CHOOSE f \in rom_files : TRUE
             rom_name == Stem(rom_file)
         IN  process_roms_with(
                 IF rom_name \in DOMAIN resolutions
                 THEN update_rom_config(
                          dir, rom_name,
                          IF quad[1] # None THEN quad[1][1] ELSE resolutions[rom_name][1],
                          IF quad[2] # None THEN quad[2][1] ELSE resolutions[rom_name][2],
                          quad[3], quad[4])
                 ELSE dir,
                 rom_files \ {rom_file}, resolutions, quad)

\* one `if args.<system>:` block, from the run so far: the error of the
\* override option returns 1, a missing ROM folder returns 1, otherwise the
\* system is processed
cli_system(run, named, folder, values) ==
    IF run.ret # None \/ ~named THEN run
    ELSE LET o == cli_override(values)
         IN  IF o.error \/ folder \notin DOMAIN run.fs
             THEN [run EXCEPT !.ret = Some(1)]
             ELSE [fs |-> [run.fs EXCEPT ![folder] =
                             process_roms_with(
                                 run.fs[folder], Glob(run.fs[folder], <<".zip">>),
                                 parse_dat_file(ArcadeDat, EmptyConfig, EmptyConfig).resolutions,
                                 o.quad)],
                   ret |-> None,
                   managers |-> Append(run.managers, o.quad)]

\* main_cli: the folders after the run and how it ends
main_cli(files, argv) ==
    IF add_argument("+", OverrideMetavar) # <<"ok">>
    THEN [fs |-> files, ret |-> <<"raise", "ValueError", <<>>>>]
    ELSE IF ~(argv.fbneo \/ argv.mame)
    THEN [fs |-> files, ret |-> <<"return", 1, <<>>>>]
    ELSE LET start == [fs |-> files, ret |-> None, managers |-> <<>>]
             fbneo == cli_system(start, argv.fbneo, rom_folder, argv.fbneo_override)
             mame  == cli_system(fbneo, argv.mame, mame_folder, argv.mame_override)
         IN  [fs  |-> mame.fs,
              ret |-> <<"return", IF mame.ret # None THEN mame.ret[1] ELSE 0,
                        mame.managers>>]

\* the integers behind an override option: the first n of a fixed list
OverrideValues(n) == SubSeq(<<MaxDim, MaxDim - 1, 1, 2, 3, 4, 5, 6>>, 1, n)

Argvs ==
    [fbneo : BOOLEAN,
     fbneo_override : {None} \cup {Some(OverrideValues(n)) : n \in 1..MaxValues},
     mame : BOOLEAN,
     mame_override : {None} \cup {Some(OverrideValues(n)) : n \in 1..MaxValues}]

CliFiles ==
    (rom_folder :> Folder(RomFiles, EmptyDir)) @@ (mame_folder :> Folder(RomFiles, EmptyDir))

CliInit ==
    /\ fs = CliFiles
    /\ export_folder = None
    /\ game_resolutions = EmptyConfig
    /\ dat_file = ArcadeDat
    /\ game_info = EmptyConfig
    /\ parse_log = <<>>
    /\ override_width = None
    /\ override_height = None
    /\ override_x = None
    /\ override_y = None
    /\ last = NoCall
    /\ progress = <<>>
    /\ system = NoSystem

MainCli(argv) ==
    LET r == main_cli(fs, argv)
    IN  /\ fs' = r.fs
        /\ last' = [op |-> "main_cli", rom_name |-> <<>>, args |-> <<argv>>,
                    ret |-> r.ret]
        /\ progress' = <<>>
        /\ UNCHANGED <<Manager, system>>

CliNext == \E argv \in Argvs : MainCli(argv)

CliSpec == CliInit /\ [][CliNext]_vars

(***************************************************************************)
(* The interactive session of ui.py, for one system.                       *)
(*                                                                         *)
(* system is the SystemConfig: its settings, None where the string is      *)
(* empty, and whether system.manager holds a manager.  The retained        *)
(* manager's fields are the manager variables above; its ROM folder is     *)
(* rom_folder, the one folder the ROM folder setting is ever given.        *)
(***************************************************************************)
\* a catalog ElementTree rejects
BrokenDat == [kind |-> "malformed", games |-> <<>>, machines |-> 0]

\* the catalog download_dat_file fetches
DownloadedDat ==
    [kind  |-> "xml", machines |-> 0,
     games |-> <<[name |-> Some(pacman), display |-> Decl(Some(Text320), Some(Text240)),
                  video |-> None]>>]

\* the fields of the retained manager
CurrentManager ==
    [dat_file |-> dat_file, export_folder |-> export_folder,
     override_width |-> override_width, override_height |-> override_height,
     override_x |-> override_x, override_y |-> override_y,
     game_resolutions |-> game_resolutions, game_info |-> game_info,
     parse_log |-> parse_log]

\* initialize_system_manager: the system and the manager after the call and
\* the returned flag.  The new manager is assigned to system.manager before
\* parse_dat_file is called on it, and stays there when the parse raises.
initialize_system_manager(sys, manager, require_rom_folder) ==
    IF sys.dat_file = None
    THEN [system |-> sys, manager |-> manager, ret |-> FALSE]
    ELSE IF require_rom_folder /\ sys.rom_folder = None
    THEN [system |-> sys, manager |-> manager, ret |-> FALSE]
    ELSE IF ~sys.manager
    THEN LET r == parse_dat_file(sys.dat_file[1], EmptyConfig, EmptyConfig)
         IN  [system  |-> [sys EXCEPT !.manager = TRUE],
              manager |-> [dat_file |-> sys.dat_file[1],
                           export_folder |-> sys.export_folder,
                           override_width |-> sys.override_width,
                           override_height |-> sys.override_height,
                           override_x |-> sys.override_x,
                           override_y |-> sys.override_y,
                           game_resolutions |-> r.resolutions,
                           game_info |-> r.info,
                           parse_log |-> r.log],
              ret |-> r.ret = <<"None">>]
    ELSE [system |-> sys, manager |-> manager, ret |-> TRUE]

\* the texts typed at the four prompts of set_system_resolution_override:
\* <<>> for an empty line, digits, or a text int() rejects
OverrideInputs ==
    { <<<<>>, <<>>, <<>>, <<>>>>,
      <<<<"1", "2">>, <<"1", "2">>, <<>>, <<>>>>,
      <<<<"1", "2">>, <<"1", "x">>, <<>>, <<>>>> }

\* one prompt: the setting after it, and whether int() raised
PromptValue(text) ==
    IF text = <<>> THEN [value |-> None, valid |-> TRUE]
    ELSE IF \A k \in 1..Len(text) : IsDigit(text[k])
    THEN [value |-> Some(DigitsToNat(text)), valid |-> TRUE]
    ELSE [value |-> None, valid |-> FALSE]

\* the four prompts in order: each valid answer is stored in the system at
\* once, an invalid one returns; done says that all four were stored
set_overrides(sys, inputs) ==
    LET w == PromptValue(inputs[1])
        h == PromptValue(inputs[2])
        x == PromptValue(inputs[3])
        y == PromptValue(inputs[4])
        s1 == [sys EXCEPT !.override_width = w.value]
        s2 == [s1 EXCEPT !.override_height = h.value]
        s3 == [s2 EXCEPT !.override_x = x.value]
        s4 == [s3 EXCEPT !.override_y = y.value]
    IN  IF ~w.valid THEN [system |-> sys, done |-> FALSE]
        ELSE IF ~h.valid THEN [system |-> s1, done |-> FALSE]
        ELSE IF ~x.valid THEN [system |-> s2, done |-> FALSE]
        ELSE IF ~y.valid THEN [system |-> s3, done |-> FALSE]
        ELSE [system |-> s4, done |-> TRUE]

\* the manager variables where system.manager is None
NoManager ==
    [dat_file |-> [kind |-> "unset", games |-> <<>>, machines |-> 0],
     export_folder |-> None,
     override_width |-> None, override_height |-> None,
     override_x |-> None, override_y |-> None,
     game_resolutions |-> EmptyConfig, game_info |-> EmptyConfig,
     parse_log |-> <<>>]

\* the manager variables take the fields of the manager the call leaves
Retain(manager) ==
    /\ dat_file' = manager.dat_file
    /\ export_folder' = manager.export_folder
    /\ override_width' = manager.override_width
    /\ override_height' = manager.override_height
    /\ override_x' = manager.override_x
    /\ override_y' = manager.override_y
    /\ game_resolutions' = manager.game_resolutions
    /\ game_info' = manager.game_info
    /\ parse_log' = manager.parse_log

UiCall(op, ret) == [op |-> op, rom_name |-> <<>>, args |-> <<>>, ret |-> ret]

UiInit ==
    /\ system = NoSystem
    /\ fs = (rom_folder :> Folder(RomFiles, EmptyDir)) @@ (ExportDir :> EmptyDir)
    /\ export_folder = NoManager.export_folder
    /\ game_resolutions = NoManager.game_resolutions
    /\ dat_file = NoManager.dat_file
    /\ game_info = NoManager.game_info
    /\ parse_log = NoManager.parse_log
    /\ override_width = NoManager.override_width
    /\ override_height = NoManager.override_height
    /\ override_x = NoManager.override_x
    /\ override_y = NoManager.override_y
    /\ last = NoCall
    /\ progress = <<>>

\* set_system_dat_file with a file chosen: the manager is dropped
SetSystemDatFile(result) ==
    /\ system' = [system EXCEPT !.dat_file = Some(result), !.manager = FALSE]
    /\ Retain(NoManager)
    /\ last' = UiCall("set_system_dat_file", <<>>)
    /\ progress' = <<>>
    /\ UNCHANGED fs

\* download_dat_file_from_web with a successful download: only the setting
\* changes
DownloadDatFileFromWeb ==
    /\ system' = [system EXCEPT !.dat_file = Some(DownloadedDat)]
    /\ last' = UiCall("download_dat_file_from_web", <<>>)
    /\ progress' = <<>>
    /\ UNCHANGED <<Manager, fs>>

\* set_system_rom_folder with a folder chosen: the manager is dropped
SetSystemRomFolder ==
    /\ system' = [system EXCEPT !.rom_folder = Some(rom_folder), !.manager = FALSE]
    /\ Retain(NoManager)
    /\ last' = UiCall("set_system_rom_folder", <<>>)
    /\ progress' = <<>>
    /\ UNCHANGED fs

\* set_system_export_folder with a folder chosen or with Clear: only the
\* setting changes
SetSystemExportFolder(result) ==
    /\ system' = [system EXCEPT !.export_folder = result]
    /\ last' = UiCall("set_system_export_folder", <<>>)
    /\ progress' = <<>>
    /\ UNCHANGED <<Manager, fs>>

\* set_system_resolution_override: the retained manager gets the four
\* settings after the fourth prompt
SetSystemResolutionOverride(inputs) ==
    LET r == set_overrides(system, inputs)
        copy == r.done /\ system.manager
    IN  /\ system' = r.system
        /\ override_width' = IF copy THEN r.system.override_width ELSE override_width
        /\ override_height' = IF copy THEN r.system.override_height ELSE override_height
        /\ override_x' = IF copy THEN r.system.override_x ELSE override_x
        /\ override_y' = IF copy THEN r.system.override_y ELSE override_y
        /\ last' = UiCall("set_system_resolution_override", <<>>)
        /\ progress' = <<>>
        /\ UNCHANGED <<fs, export_folder, game_resolutions, dat_file, game_info,
                       parse_log>>

\* the folder a manager writes to
ManagerFolder(manager) ==
    IF manager.export_folder # None THEN manager.export_folder[1] ELSE rom_folder

\* process_current_system, the user confirming: initialize_system_manager,
\* then system.manager.process_roms
ProcessCurrentSystem ==
    LET i == initialize_system_manager(system, CurrentManager, TRUE)
        m == i.manager
    IN  /\ system' = i.system
        /\ Retain(m)
        /\ IF i.ret
           THEN /\ fs' = [fs EXCEPT ![ManagerFolder(m)] =
                             process_roms_with(
                                 @, Glob(fs[rom_folder], <<".zip">>),
                                 m.game_resolutions,
                                 <<m.override_width, m.override_height,
                                   m.override_x, m.override_y>>)]
                /\ last' = UiCall("process_current_system", <<"ran">>)
           ELSE /\ fs' = fs
                /\ last' = UiCall("process_current_system", <<"not initialized">>)
        /\ progress' = <<>>

\* the file's text holds one of the three key names the screen looks for
MentionsOverride(content) ==
    \E k \in 1..Len(content) :
        content[k] \in {custom_viewport_width[1], custom_viewport_height[1],
                        aspect_ratio_index[1]}

\* remove_current_system_overrides, the user confirming: the *.zip.cfg files
\* of the system's output location are looked at first, and only where one
\* mentions an override does the call go on to initialize_system_manager and
\* system.manager.remove_all_overrides
RemoveCurrentSystemOverrides ==
    LET location == IF system.export_folder # None THEN system.export_folder
                    ELSE system.rom_folder
        found == /\ location # None
                 /\ \E f \in Glob(fs[location[1]], <<".zip", ".cfg">>) :
                        MentionsOverride(fs[location[1]][f])
        i == IF found THEN initialize_system_manager(system, CurrentManager, TRUE)
             ELSE [system |-> system, manager |-> CurrentManager, ret |-> FALSE]
        m == i.manager
    IN  /\ system' = i.system
        /\ Retain(m)
        /\ IF i.ret
           THEN /\ fs' = [fs EXCEPT ![ManagerFolder(m)] =
                             remove_all_loop(
                                 @, CHOOSE q \in Enumerations(Glob(@, <<".zip", ".cfg">>)) : TRUE,
                                 0, 0).dir]
                /\ last' = UiCall("remove_current_system_overrides", <<"ran">>)
           ELSE /\ fs' = fs
                /\ last' = UiCall("remove_current_system_overrides",
                                  IF found THEN <<"not initialized">>
                                  ELSE <<"nothing to remove">>)
        /\ progress' = <<>>

UiNext ==
    \/ \E result \in {ArcadeDat, BrokenDat} : SetSystemDatFile(result)
    \/ DownloadDatFileFromWeb
    \/ SetSystemRomFolder
    \/ \E result \in {None, Some(ExportDir)} : SetSystemExportFolder(result)
    \/ \E inputs \in OverrideInputs : SetSystemResolutionOverride(inputs)
    \/ ProcessCurrentSystem
    \/ RemoveCurrentSystemOverrides

UiSpec == UiInit /\ [][UiNext]_vars

(***************************************************************************)
(* Vocabulary of the properties.                                           *)
(***************************************************************************)
\* the five viewport keys of the specification
ViewportKeys ==
    {custom_viewport_width, custom_viewport_height, custom_viewport_x,
     custom_viewport_y, aspect_ratio_index}

\* the config targets of a folder
Targets(dir) == Glob(dir, <<".cfg">>)

\* the record a target holds
Record(dir, name) == read_config_file(dir, name)

HoldsViewportKey(dir, name) == (DOMAIN Record(dir, name)) \cap ViewportKeys # {}

\* the output folder before and after a step
Out == fs[output_folder]

OutAfter == fs'[output_folder]

\* the written form of an integer setting
Setting(n) == Quoted(IntToStr(n))

OrZero(opt) == IF opt = None THEN 0 ELSE opt[1]

(***************************************************************************)
(* C1: every key that is not one of the five viewport keys survives every  *)
(* call unchanged: if a config target holds such a key k with value v,     *)
(* then after update_rom_config, remove_rom_config (either delete_if_empty)*)
(* process_roms or remove_all_overrides the target still exists and still  *)
(* holds k with value v.  Stated of every step, hence of every sequence.   *)
(***************************************************************************)
C1_OtherKeysSurvive ==
    [][\A folder \in DOMAIN fs : \A name \in Targets(fs[folder]) :
          \A k \in (DOMAIN Record(fs[folder], name)) \ ViewportKeys :
              /\ name \in DOMAIN fs'[folder]
              /\ k \in DOMAIN Record(fs'[folder], name)
              /\ Record(fs'[folder], name)[k] = Record(fs[folder], name)[k]]_vars

\* a removal has pruned the hand-written target and its unrelated keys are there
C1_Witness ==
    /\ last.op = "remove_rom_config"
    /\ last.ret = <<TRUE, FALSE>>
    /\ ConfigPath(last.rom_name) \in DOMAIN Out
    /\ LET rec == Record(Out, ConfigPath(last.rom_name))
       IN  /\ DOMAIN rec = {<<"video_shader">>, <<"input_driver">>}
           /\ rec[<<"video_shader">>] = <<"udev", "=", "1">>
           /\ rec[<<"input_driver">>] = Quoted(<<"udev">>)

(***************************************************************************)
(* C2: after update_rom_config(rom_name, w, h, x, y) the target exists and *)
(* reading it back yields all five viewport keys: width w, height h, x     *)
(* (0 when x is None), y (0 when y is None) and aspect_ratio_index 23.     *)
(***************************************************************************)
C2_ApplyWritesFiveKeys ==
    last.op = "update_rom_config" =>
        /\ ConfigPath(last.rom_name) \in DOMAIN Out
        /\ LET rec == Record(Out, ConfigPath(last.rom_name))
           IN  /\ ViewportKeys \subseteq DOMAIN rec
               /\ rec[custom_viewport_width] = Setting(last.args[1])
               /\ rec[custom_viewport_height] = Setting(last.args[2])
               /\ rec[custom_viewport_x] = Setting(OrZero(last.args[3]))
               /\ rec[custom_viewport_y] = Setting(OrZero(last.args[4]))
               /\ rec[aspect_ratio_index] = <<"\"", "2", "3", "\"">>

\* a call with x given and y = None has written y as "0", on a target that
\* held an unquoted width before
C2_Witness ==
    /\ last.op = "update_rom_config"
    /\ last.args[3] = Some(MaxPos)
    /\ last.args[4] = None
    /\ Record(Out, ConfigPath(last.rom_name))[custom_viewport_x] = Setting(MaxPos)
    /\ Record(Out, ConfigPath(last.rom_name))[custom_viewport_y] = <<"\"", "0", "\"">>
    /\ <<"video_shader">> \in DOMAIN Record(Out, ConfigPath(last.rom_name))

(***************************************************************************)
(* C3: update_rom_config is idempotent: right after a call, a second call  *)
(* with the same arguments leaves every file byte-identical.               *)
(***************************************************************************)
C3_ApplyIdempotent ==
    last.op = "update_rom_config" =>
        update_rom_config(Out, last.rom_name, last.args[1], last.args[2],
                          last.args[3], last.args[4]) = Out

\* the call was made on a target that holds unrelated keys as well
C3_Witness ==
    /\ last.op = "update_rom_config"
    /\ (DOMAIN Record(Out, ConfigPath(last.rom_name))) \ ViewportKeys # {}

(***************************************************************************)
(* C4: for every ROM identifier with a catalog entry (cw, ch), process_roms*)
(* writes width = override width if it is not None else cw and,            *)
(* independently, height = override height if it is not None else ch; x    *)
(* and y come from the override only, 0 when None.  An override of 0 is    *)
(* used, not replaced by the catalog value.                                *)
(***************************************************************************)
C4_ProcessPrecedence ==
    last.op = "process_roms" =>
        \A rom_file \in Glob(fs[rom_folder], <<".zip">>) :
            LET rom_name == Stem(rom_file)
                rec      == Record(Out, ConfigPath(rom_name))
            IN  rom_name \in DOMAIN game_resolutions =>
                  /\ ViewportKeys \subseteq DOMAIN rec
                  /\ rec[custom_viewport_width] =
                        Setting(IF override_width = None
                                THEN game_resolutions[rom_name][1]
                                ELSE override_width[1])
                  /\ rec[custom_viewport_height] =
                        Setting(IF override_height = None
                                THEN game_resolutions[rom_name][2]
                                ELSE override_height[1])
                  /\ rec[custom_viewport_x] = Setting(OrZero(override_x))
                  /\ rec[custom_viewport_y] = Setting(OrZero(override_y))

\* with an override width of 0 and no override height, pacman (320 x 240 in the
\* catalog) got width "0" and height "240"
C4_Witness ==
    /\ last.op = "process_roms"
    /\ override_width = Some(0)
    /\ override_height = None
    /\ Record(Out, ConfigPath(pacman))[custom_viewport_width] = <<"\"", "0", "\"">>
    /\ Record(Out, ConfigPath(pacman))[custom_viewport_height]
          = <<"\"", "2", "4", "0", "\"">>

(***************************************************************************)
(* C5: after remove_all_overrides no config target of the folder holds any *)
(* of the five viewport keys (and so a target that update_rom_config       *)
(* created on an absent file is gone).                                     *)
(***************************************************************************)
C5_RemoveAllLeavesNoViewportKey ==
    [][last'.op = "remove_all_overrides" =>
          /\ \A name \in Targets(OutAfter) : ~HoldsViewportKey(OutAfter, name)
          /\ \A name \in Targets(Out) :
                ( /\ HoldsViewportKey(Out, name)
                  /\ DOMAIN Record(Out, name) \subseteq ViewportKeys )
                => name \notin DOMAIN OutAfter]_vars

(***************************************************************************)
(* C6: remove_rom_config on an existing target whose record consists only  *)
(* of viewport keys returns (True, True); with delete_if_empty the file is *)
(* deleted, without it the file still exists and holds no key.             *)
(***************************************************************************)
C6_RemoveOnlyViewportKeys ==
    [][\A rom_name \in RomNames :
          LET name == ConfigPath(rom_name)
          IN  ( /\ last'.op = "remove_rom_config"
                /\ last'.rom_name = rom_name
                /\ name \in DOMAIN Out
                /\ HoldsViewportKey(Out, name)
                /\ DOMAIN Record(Out, name) \subseteq ViewportKeys )
              => /\ last'.ret = <<TRUE, TRUE>>
                 /\ IF last'.args[1]
                    THEN name \notin DOMAIN OutAfter
                    ELSE /\ name \in DOMAIN OutAfter
                         /\ DOMAIN Record(OutAfter, name) = {}]_vars

\* delete_if_empty = False left an existing file without any key
C6_Witness ==
    /\ last.op = "remove_rom_config"
    /\ last.args[1] = FALSE
    /\ last.ret = <<TRUE, TRUE>>
    /\ ConfigPath(last.rom_name) \in DOMAIN Out
    /\ Out[ConfigPath(last.rom_name)] = <<>>

(***************************************************************************)
(* C7: remove_rom_config on an existing target that holds at least one     *)
(* viewport key and at least one other key leaves a file that holds        *)
(* exactly the other keys with their values, for either delete_if_empty,   *)
(* and returns (True, False).                                              *)
(***************************************************************************)
C7_RemoveKeepsOtherKeys ==
    [][\A rom_name \in RomNames :
          LET name == ConfigPath(rom_name)
              rec  == Record(Out, name)
          IN  ( /\ last'.op = "remove_rom_config"
                /\ last'.rom_name = rom_name
                /\ name \in DOMAIN Out
                /\ HoldsViewportKey(Out, name)
                /\ (DOMAIN rec) \ ViewportKeys # {} )
              => /\ last'.ret = <<TRUE, FALSE>>
                 /\ name \in DOMAIN OutAfter
                 /\ DOMAIN Record(OutAfter, name) = (DOMAIN rec) \ ViewportKeys
                 /\ \A k \in (DOMAIN rec) \ ViewportKeys :
                       Record(OutAfter, name)[k] = rec[k]]_vars

\* a removal without delete_if_empty left exactly the unrelated key
C7_Witness ==
    /\ last.op = "remove_rom_config"
    /\ last.args[1] = FALSE
    /\ last.ret = <<TRUE, FALSE>>
    /\ Out[ConfigPath(last.rom_name)]
          = <<"input_driver", " ", "=", " ", "\"", "udev", "\"", NL>>

(***************************************************************************)
(* C8: remove_rom_config takes no action when the target does not exist    *)
(* (no file is created) and when it exists but holds none of the five      *)
(* viewport keys (its bytes are unchanged): it returns (False, False) and  *)
(* the folders are unchanged.                                              *)
(***************************************************************************)
C8_RemoveNoAction ==
    [][\A rom_name \in RomNames :
          LET name == ConfigPath(rom_name)
          IN  ( /\ last'.op = "remove_rom_config"
                /\ last'.rom_name = rom_name
                /\ (name \notin DOMAIN Out \/ ~HoldsViewportKey(Out, name)) )
              => /\ last'.ret = <<FALSE, FALSE>>
                 /\ fs' = fs]_vars

\* the call found a target with a comment and no viewport key, and left it as is
C8_Witness ==
    /\ last.op = "remove_rom_config"
    /\ last.ret = <<FALSE, FALSE>>
    /\ ConfigPath(last.rom_name) \in DOMAIN Out
    /\ Out[ConfigPath(last.rom_name)] = OtherOnly

(***************************************************************************)
(* C9: process_roms does not abort on an identifier without catalog entry: *)
(* over N ROM identifiers it returns (processed, skipped) with processed   *)
(* the number of identifiers that have a catalog resolution and skipped    *)
(* the number that have none, processed + skipped = N; the target of a     *)
(* skipped identifier is neither created nor modified and the target of a  *)
(* processed one holds all five viewport keys afterwards.                  *)
(***************************************************************************)
C9_ProcessCountsAndSkips ==
    [][last'.op = "process_roms" =>
          LET ids     == {Stem(f) : f \in Glob(fs[rom_folder], <<".zip">>)}
              known   == {r \in ids : r \in DOMAIN game_resolutions}
              unknown == ids \ known
          IN  /\ last'.ret = <<Cardinality(known), Cardinality(unknown)>>
              /\ last'.ret[1] + last'.ret[2]
                    = Cardinality(Glob(fs[rom_folder], <<".zip">>))
              /\ \A r \in unknown :
                    /\ ConfigPath(r) \in DOMAIN OutAfter <=> ConfigPath(r) \in DOMAIN Out
                    /\ ConfigPath(r) \in DOMAIN Out =>
                          OutAfter[ConfigPath(r)] = Out[ConfigPath(r)]
              /\ \A r \in known :
                    /\ ConfigPath(r) \in DOMAIN OutAfter
                    /\ ViewportKeys \subseteq
                          DOMAIN Record(OutAfter, ConfigPath(r))]_vars

\* one ROM was processed, one was skipped, and the skipped one's hand-made
\* target is as it was
C9_Witness ==
    /\ last.op = "process_roms"
    /\ last.ret = <<1, 1>>
    /\ ViewportKeys \subseteq DOMAIN Record(Out, ConfigPath(pacman))
    /\ ConfigPath(homebrew) \in DOMAIN Out
    /\ Out[ConfigPath(homebrew)] = PositionOnly

(***************************************************************************)
(* C10: remove_all_overrides returns (removed, skipped) where removed is   *)
(* the number of config targets of the folder that held at least one of    *)
(* the five viewport keys and skipped the number that held none; they sum  *)
(* to the number of targets, and a skipped target is left byte-identical.  *)
(* A target whose only viewport keys are custom_viewport_x and/or          *)
(* custom_viewport_y counts as removed.                                    *)
(***************************************************************************)
C10_RemoveAllCounts ==
    [][last'.op = "remove_all_overrides" =>
          LET holding == {n \in Targets(Out) : HoldsViewportKey(Out, n)}
              without == Targets(Out) \ holding
          IN  /\ last'.ret = <<Cardinality(holding), Cardinality(without)>>
              /\ last'.ret[1] + last'.ret[2] = Cardinality(Targets(Out))
              /\ \A n \in without :
                    n \in DOMAIN OutAfter /\ OutAfter[n] = Out[n]]_vars

(***************************************************************************)
(* The written form of a config file, read off its bytes.                  *)
(***************************************************************************)
\* the order the specification fixes for the viewport keys
FixedOrder ==
    <<aspect_ratio_index, custom_viewport_x, custom_viewport_y,
      custom_viewport_width, custom_viewport_height>>

FixedPos(k) == CHOOSE i \in 1..Len(FixedOrder) : FixedOrder[i] = k

\* the line reads "key = value": one blank on each side of its first "="
HasLineForm(line) ==
    LET eq == FirstIndex(line, "=")
    IN  /\ eq >= 2
        /\ line[eq - 1] = " "
        /\ eq < Len(line)
        /\ line[eq + 1] = " "

KeyOfLine(line) == SubSeq(line, 1, FirstIndex(line, "=") - 2)

ValueOfLine(line) == SubSeq(line, FirstIndex(line, "=") + 2, Len(line))

\* line a may stand before line b
KeysInOrder(a, b) ==
    IF a \in ViewportKeys
    THEN b \in ViewportKeys => FixedPos(a) < FixedPos(b)
    ELSE b \notin ViewportKeys /\ StrLess(a, b)

\* every line is "key = value" and ends with a line feed, the viewport keys
\* come first in the fixed order, the other keys follow in ascending order
\* (so that no key is written twice)
WellOrdered(content) ==
    LET lines == Lines(content)
    IN  /\ content # <<>> => content[Len(content)] = NL
        /\ \A i \in 1..Len(lines) : HasLineForm(lines[i])
        /\ \A i, j \in 1..Len(lines) :
              i < j => KeysInOrder(KeyOfLine(lines[i]), KeyOfLine(lines[j]))

\* the targets of the output folder a step has created or changed
Written == {n \in Targets(OutAfter) : n \notin DOMAIN Out \/ OutAfter[n] # Out[n]}

(***************************************************************************)
(* C11: every file the reconciler writes lists the viewport keys that are  *)
(* present first, in the order aspect_ratio_index, custom_viewport_x,      *)
(* custom_viewport_y, custom_viewport_width, custom_viewport_height, then  *)
(* every other key in lexicographic order, one "key = value" line per key  *)
(* and each key once.                                                      *)
(***************************************************************************)
C11_WrittenFilesAreOrdered ==
    [][/\ \A n \in Written : WellOrdered(OutAfter[n])
       /\ last'.op = "update_rom_config" =>
             WellOrdered(OutAfter[ConfigPath(last'.rom_name)])]_vars

\* update_rom_config has rewritten the hand-written target: five viewport lines
\* and the two other keys behind them
C11_Witness ==
    /\ last.op = "update_rom_config"
    /\ ConfigPath(last.rom_name) \in DOMAIN Out
    /\ LET lines == Lines(Out[ConfigPath(last.rom_name)])
       IN  /\ Len(lines) = 7
           /\ KeyOfLine(lines[1]) = aspect_ratio_index
           /\ KeyOfLine(lines[6]) = <<"input_driver">>
           /\ KeyOfLine(lines[7]) = <<"video_shader">>

(***************************************************************************)
(* C12: in every file the reconciler writes, the value of each viewport    *)
(* key that is present is wrapped in double quotes, whatever form it had   *)
(* before, and the value of every other key is written as it was read.     *)
(***************************************************************************)
IsQuoted(value) ==
    /\ Len(value) >= 2
    /\ value[1] = "\""
    /\ value[Len(value)] = "\""

C12_ViewportValuesQuoted ==
    [][\A n \in Written :
          LET rec == Record(OutAfter, n)
          IN  /\ \A k \in (DOMAIN rec) \cap ViewportKeys : IsQuoted(rec[k])
              /\ \A k \in (DOMAIN rec) \ ViewportKeys :
                    /\ n \in DOMAIN Out
                    /\ k \in DOMAIN Record(Out, n)
                    /\ rec[k] = Record(Out, n)[k]]_vars

(***************************************************************************)
(* The catalog parser's contract.  What a declaration says is read off     *)
(* the catalog file itself.                                                *)
(***************************************************************************)
\* the text is an integer numeral, blanks around it and a sign allowed
IsIntegerText(text) ==
    LET t      == Strip(text)
        digits == IF t # <<>> /\ Head(t) \in {"-", "+"} THEN Tail(t) ELSE t
    IN  digits # <<>> /\ \A i \in 1..Len(digits) : IsDigit(digits[i])

IntegerValue(text) ==
    LET t == Strip(text)
    IN  IF Head(t) = "-" THEN 0 - DigitsToNat(Tail(t))
        ELSE IF Head(t) = "+" THEN DigitsToNat(Tail(t))
        ELSE DigitsToNat(t)

\* the declaration is there and gives both a width and a height
Complete(decl) == decl # None /\ ~Falsy(decl[1].width) /\ ~Falsy(decl[1].height)

BothIntegers(decl) ==
    IsIntegerText(decl[1].width[1]) /\ IsIntegerText(decl[1].height[1])

\* the game is stored under its name with the declaration's two integers
StoredFrom(name, decl) ==
    /\ name \in DOMAIN game_resolutions
    /\ game_resolutions[name] =
           <<IntegerValue(decl[1].width[1]), IntegerValue(decl[1].height[1])>>
    /\ name \in DOMAIN game_info
    /\ game_info[name].width = IntegerValue(decl[1].width[1])
    /\ game_info[name].height = IntegerValue(decl[1].height[1])

NotStored(name) == name \notin DOMAIN game_resolutions /\ name \notin DOMAIN game_info

NamedGames == {i \in 1..Len(dat_file.games) : ~Falsy(dat_file.games[i].name)}

\* the declaration whose width and height the lookup settles on
Consulted(game) ==
    IF Complete(game.display) \/ game.video = None THEN game.display ELSE game.video

Parsed == last.op = "parse_dat_file" /\ last.ret = <<"None">>

\* C13: after a parse, a game whose display declaration gives both a width and
\* a height, both integers, is stored with those, whether or not it also has a
\* video declaration; a game whose display declaration is absent or lacks one
\* of the two is stored with the video declaration's width and height when
\* that gives both as integers, and is not stored at all when it does not: a
\* width from one declaration is never paired with a height from the other.
C13_DisplayBeforeVideo ==
    Parsed =>
        \A i \in NamedGames :
            LET game == dat_file.games[i]
                name == game.name[1]
            IN  /\ Complete(game.display) /\ BothIntegers(game.display)
                       => StoredFrom(name, game.display)
                /\ ~Complete(game.display) /\ Complete(game.video)
                       /\ BothIntegers(game.video)
                       => StoredFrom(name, game.video)
                /\ ~Complete(game.display) /\ ~Complete(game.video)
                       => NotStored(name)

\* a parsed catalog in which one game declares both a display and a different
\* video resolution and is stored with the display's, and another game, whose
\* display lacks its height, is stored with the video's
C13_Witness ==
    /\ Parsed
    /\ \E i \in NamedGames :
          LET game == dat_file.games[i]
          IN  /\ Complete(game.display) /\ BothIntegers(game.display)
              /\ Complete(game.video) /\ BothIntegers(game.video)
              /\ game.display # game.video
              /\ StoredFrom(game.name[1], game.display)
    /\ \E i \in NamedGames :
          LET game == dat_file.games[i]
          IN  /\ game.display # None /\ ~Complete(game.display)
              /\ Complete(game.video)
              /\ StoredFrom(game.name[1], game.video)

\* C14: parsing a well-formed catalog returns normally; a game whose consulted
\* width or height is not an integer is in neither map and a warning naming it
\* is logged; every game whose consulted width and height are integers is
\* stored.
C14_InvalidGameDropped ==
    last.op = "parse_dat_file" /\ dat_file.kind = "xml" =>
        /\ last.ret = <<"None">>
        /\ \A i \in NamedGames :
              LET game == dat_file.games[i]
                  name == game.name[1]
                  decl == Consulted(game)
              IN  /\ Complete(decl) /\ ~BothIntegers(decl) =>
                        /\ NotStored(name)
                        /\ \E k \in 1..Len(parse_log) :
                              parse_log[k] = <<"Warning: Invalid resolution for", name>>
                  /\ Complete(decl) /\ BothIntegers(decl) => StoredFrom(name, decl)

\* a parse that dropped the first game for its width, logged it, and stored
\* the game after it
C14_Witness ==
    /\ Parsed
    /\ Len(dat_file.games) = 2
    /\ NamedGames = {1, 2}
    /\ Complete(dat_file.games[1].display)
    /\ ~IsIntegerText(dat_file.games[1].display[1].width[1])
    /\ NotStored(pacman)
    /\ \E k \in 1..Len(parse_log) :
          parse_log[k] = <<"Warning: Invalid resolution for", pacman>>
    /\ DOMAIN game_resolutions = {dkong}
    /\ DOMAIN game_info = {dkong}

\* C15: a parse of a malformed catalog raises the parse error, a parse of a
\* missing catalog the not-found error, and neither changes game_resolutions
\* or game_info.
C15_FailedParseAddsNothing ==
    [][last'.op = "parse_dat_file" /\ dat_file.kind \in {"malformed", "missing"} =>
          /\ last'.ret = <<"raise", IF dat_file.kind = "malformed"
                                    THEN "ParseError" ELSE "FileNotFoundError">>
          /\ game_resolutions' = game_resolutions
          /\ game_info' = game_info]_vars

\* a parse that failed on a catalog whose well-formed part holds a game with a
\* valid resolution, the maps still empty
C15_Witness ==
    /\ last.op = "parse_dat_file"
    /\ last.ret = <<"raise", "ParseError">>
    /\ dat_file.kind = "malformed"
    /\ \E i \in NamedGames :
          Complete(dat_file.games[i].display) /\ BothIntegers(dat_file.games[i].display)
    /\ game_resolutions = EmptyConfig
    /\ game_info = EmptyConfig

(***************************************************************************)
(* The archive manager's contract and the export folder.  The folder the   *)
(* contract speaks of is read off the manager's fields.                    *)
(***************************************************************************)
Destination == IF export_folder # None THEN export_folder[1] ELSE rom_folder

\* a folder without its .cfg files
WithoutConfigs(dir) == [n \in (DOMAIN dir) \ Targets(dir) |-> dir[n]]

\* C16: after a successful backup, removing every .cfg file of the config
\* folder and restoring the archive just written leaves the folder with exactly
\* the .cfg files it held before the backup, each with the content it had, and
\* restore returns their number as its restored count, nothing skipped.
C16_BackupRestoreRoundTrip ==
    [][last'.op = "backup_configs" /\ last'.ret[1] =>
          \A overwrite \in BOOLEAN :
              LET original == fs[Destination]
                  emptied  == [fs' EXCEPT ![Destination] = WithoutConfigs(@)]
                  r        == restore_configs(emptied, last'.ret[2][1], overwrite)
                  restored == r.files[Destination]
              IN  /\ Targets(restored) = Targets(original)
                  /\ \A n \in Targets(original) : restored[n] = original[n]
                  /\ r.ret = <<Cardinality(Targets(original)), 0, None>>]_vars

\* a backup of a hand-written config and a plain one has been written, and
\* restoring it into the folder emptied of its configs brings both back
C16_Witness ==
    /\ last.op = "backup_configs"
    /\ last.ret[1]
    /\ Targets(fs[Destination]) = {ConfigPath(pacman), retroarch_cfg}
    /\ fs[Destination][ConfigPath(pacman)] = HandWritten
    /\ LET emptied == [fs EXCEPT ![Destination] = WithoutConfigs(@)]
           r       == restore_configs(emptied, last.ret[2][1], TRUE)
       IN  /\ r.ret = <<2, 0, None>>
           /\ r.files[Destination][ConfigPath(pacman)] = HandWritten
           /\ r.files[Destination][retroarch_cfg] = OtherOnly

\* C17: a restore that finds .cfg members returns without a message, and its
\* two counts add up to the number of .cfg members.  With overwrite false every
\* file the folder held is left as it was, a member whose target did not exist
\* is extracted, the skipped count of an archive without two members of one
\* name is the number of members whose target existed, and when every member's
\* target existed the counts are zero and the number of members.  With overwrite true every member's target holds
\* the archive's content for it and nothing is skipped.
C17_RestoreOverwritePolicy ==
    [][last'.op = "restore_configs" /\ last'.ret[3] = None =>
          LET path      == last'.args[1]
              overwrite == last'.args[2]
              members   == Members(fs[path[1]][path[2]])
              cfg_files == CfgMembers(members)
              before    == fs[Destination]
              after     == fs'[Destination]
          IN  /\ last'.ret[1] + last'.ret[2] = Len(cfg_files)
              /\ ~overwrite /\ (\A i, j \in 1..Len(cfg_files) :
                                    cfg_files[i] = cfg_files[j] => i = j) =>
                    last'.ret[2] = Cardinality({i \in 1..Len(cfg_files) :
                                                  cfg_files[i] \in DOMAIN before})
              /\ ~overwrite =>
                    /\ \A n \in DOMAIN before : n \in DOMAIN after /\ after[n] = before[n]
                    /\ \A i \in 1..Len(cfg_files) :
                          cfg_files[i] \notin DOMAIN before =>
                              /\ cfg_files[i] \in DOMAIN after
                              /\ after[cfg_files[i]] = MemberContent(members, cfg_files[i])
                    /\ (\A i \in 1..Len(cfg_files) : cfg_files[i] \in DOMAIN before)
                           => last'.ret = <<0, Len(cfg_files), None>>
              /\ overwrite =>
                    /\ \A i \in 1..Len(cfg_files) :
                          /\ cfg_files[i] \in DOMAIN after
                          /\ after[cfg_files[i]] = MemberContent(members, cfg_files[i])
                    /\ last'.ret = <<Len(cfg_files), 0, None>>]_vars

\* a restore without overwrite that skipped the two members of pacman's
\* existing config and extracted the plain config the folder lacked
C17_Witness ==
    /\ last.op = "restore_configs"
    /\ last.args = <<<<BackupDir, foreign_zip>>, FALSE>>
    /\ last.ret = <<1, 2, None>>
    /\ fs[Destination][retroarch_cfg] = PositionOnly
    /\ fs[Destination][ConfigPath(pacman)] # PositionOnly
    /\ fs[Destination][ConfigPath(pacman)] # ViewportOnly

\* C18: backup_configs always returns a triple.  Where the config folder is
\* missing or holds no .cfg file it is (False, None, message) and no file is
\* created anywhere; where the archive cannot be written it is (False, None,
\* message); otherwise it is (True, path, None) and the archive is at path.
C18_BackupNeverRaises ==
    [][last'.op = "backup_configs" =>
          LET nothing == Destination \notin DOMAIN fs \/ Targets(fs[Destination]) = {}
              target  == last'.args[1]
              unwritable == target # None /\ target[1][1] \notin DOMAIN fs
          IN  /\ Len(last'.ret) = 3
              /\ last'.ret[1] \in BOOLEAN
              /\ nothing =>
                    /\ ~last'.ret[1] /\ last'.ret[2] = None /\ last'.ret[3] # None
                    /\ fs' = fs
              /\ ~nothing /\ unwritable =>
                    ~last'.ret[1] /\ last'.ret[2] = None /\ last'.ret[3] # None
              /\ ~nothing /\ ~unwritable =>
                    /\ last'.ret[1] /\ last'.ret[2] # None /\ last'.ret[3] = None
                    /\ target # None => last'.ret[2] = target
                    /\ Exists(fs', last'.ret[2][1])
                    /\ IsZip(fs'[last'.ret[2][1][1]][last'.ret[2][1][2]])]_vars

\* a backup of a folder that exists and holds ROM archives but no config: it
\* reported that and wrote no archive
C18_Witness ==
    /\ last.op = "backup_configs"
    /\ last.ret = <<FALSE, None, Some("No config files found to backup")>>
    /\ Destination \in DOMAIN fs
    /\ Glob(fs[Destination], <<".zip">>) = RomFiles
    /\ DOMAIN fs[BackupDir] = DOMAIN Backups

\* C19: restore_configs always returns a triple.  Where the config folder is
\* missing, the archive is missing, the file is no archive, or the archive
\* holds no .cfg member, it is (0, 0, message) and every folder is as it was.
C19_RestoreNeverRaises ==
    [][last'.op = "restore_configs" =>
          LET path == last'.args[1]
              fails ==
                  \/ Destination \notin DOMAIN fs
                  \/ ~Exists(fs, path)
                  \/ ~IsZip(fs[path[1]][path[2]])
                  \/ \A i \in 1..Len(Members(fs[path[1]][path[2]])) :
                        ~EndsWith(Members(fs[path[1]][path[2]])[i][1], <<".cfg">>)
          IN  /\ Len(last'.ret) = 3
              /\ last'.ret[1] \in Nat /\ last'.ret[2] \in Nat
              /\ fails =>
                    /\ last'.ret[1] = 0 /\ last'.ret[2] = 0 /\ last'.ret[3] # None
                    /\ fs' = fs]_vars

\* a restore from a text file named like an archive: refused, the folder's two
\* configs in place
C19_Witness ==
    /\ last.op = "restore_configs"
    /\ last.args[1] = <<BackupDir, notes_zip>>
    /\ last.ret = <<0, 0, Some("Invalid backup file")>>
    /\ Destination \in DOMAIN fs
    /\ Targets(fs[Destination]) = {ConfigPath(pacman), retroarch_cfg}

Batch == {"process_roms", "remove_all_overrides"}

\* the items a batch operation enumerates, from the folders before the call
Items(op) ==
    IF op = "process_roms"
    THEN Glob(fs[rom_folder], <<".zip">>)
    ELSE Glob(Out, <<".zip", ".cfg">>)

\* the identifier of an item: the file name without .zip, or without .zip.cfg
ItemName(op, item) ==
    IF op = "process_roms"
    THEN SubSeq(item, 1, Len(item) - 1)
    ELSE SubSeq(item, 1, Len(item) - 2)

\* C21: in process_roms and remove_all_overrides the callback of an item
\* comes after the item has been handled: what the item's config target holds
\* when its callback runs is what the operation leaves it with (written,
\* rewritten, deleted, or, for a skipped item, as it was).
C21_CallbackAfterItem ==
    [][last'.op \in Batch =>
          \A k \in 1..Len(progress') :
              progress'[k].seen = Lookup(OutAfter, ConfigPath(progress'[k].rom_name))]_vars

\* C22: a batch operation given a callback calls it once per enumerated
\* item: for some order of the items, the k-th call has the arguments
\* (k, number of items, identifier of the k-th item), skipped items included,
\* and there is no call when there is no item; without a callback there is
\* no call.
C22_CallbackOncePerItem ==
    [][last'.op \in Batch =>
          IF last'.args[1]
          THEN \E items \in Enumerations(Items(last'.op)) :
                  /\ Len(progress') = Len(items)
                  /\ \A k \in 1..Len(items) :
                        /\ progress'[k].idx = k
                        /\ progress'[k].total = Len(items)
                        /\ progress'[k].rom_name = ItemName(last'.op, items[k])
          ELSE progress' = <<>>]_vars

\* process_roms with a callback over two ROMs, the first without a catalog
\* entry and skipped, the second processed: two calls, numbered 1 and 2
C22_Witness ==
    /\ last.op = "process_roms"
    /\ last.args = <<TRUE>>
    /\ last.ret = <<1, 1>>
    /\ Len(progress) = 2
    /\ progress[1].rom_name = homebrew /\ progress[1].idx = 1
    /\ progress[2].rom_name = pacman /\ progress[2].idx = 2
    /\ progress[2].total = 2

(***************************************************************************)
(* C23: the diagnostic of a catalog without display metadata.              *)
(***************************************************************************)
\* the log says that the catalog has entries but no resolution data
LacksMetadataLogged ==
    \E k \in 1..Len(parse_log) :
        parse_log[k][1] = "Warning: Found game entries but none have resolution data."

\* a well-formed catalog has just been parsed
ParsedXml == last.op = "parse_dat_file" /\ dat_file.kind = "xml"

\* C23 as stated: after parsing a well-formed catalog, if it holds at least
\* one game element and no game left a resolution, the call returned
\* normally, the map is empty and the diagnostic is logged; if it holds no
\* game element at all the map is empty and the diagnostic is not logged.
C23_DiagnosticIffGameElement ==
    ParsedXml =>
        /\ Len(dat_file.games) > 0 /\ game_resolutions = EmptyConfig
              => last.ret = <<"None">> /\ LacksMetadataLogged
        /\ Len(dat_file.games) = 0
              => game_resolutions = EmptyConfig /\ ~LacksMetadataLogged

\* C23 amended: after parsing a well-formed catalog the call has returned
\* normally, and the diagnostic is logged exactly when no game left a
\* resolution and the catalog holds at least one game or machine element; a
\* catalog with neither returns an empty map without the diagnostic.
C23_DiagnosticIffGameOrMachine ==
    ParsedXml =>
        /\ last.ret = <<"None">>
        /\ LacksMetadataLogged
              <=> /\ game_resolutions = EmptyConfig
                  /\ Len(dat_file.games) > 0 \/ dat_file.machines > 0
        /\ Len(dat_file.games) = 0 => game_resolutions = EmptyConfig

\* a catalog of two game elements, neither with a resolution, was parsed and
\* the diagnostic logged
C23_Witness ==
    /\ ParsedXml
    /\ Len(dat_file.games) = 2
    /\ dat_file.machines = 0
    /\ game_resolutions = EmptyConfig
    /\ last.ret = <<"None">>
    /\ LacksMetadataLogged

(***************************************************************************)
(* C24: delete_empty_config.                                               *)
(***************************************************************************)
\* the output folder holds the file and reading it yields no key/value pair
HoldsNoPair(name) ==
    /\ output_folder \in DOMAIN fs
    /\ name \in DOMAIN Out
    /\ DOMAIN read_config_file(Out, name) = {}

\* the step removes the file from the output folder and touches nothing else
DeletesOnly(name) ==
    /\ name \notin DOMAIN OutAfter
    /\ DOMAIN OutAfter = DOMAIN Out \ {name}
    /\ \A other \in DOMAIN OutAfter : OutAfter[other] = Out[other]
    /\ \A folder \in DOMAIN fs : folder # output_folder => fs'[folder] = fs[folder]

\* C24: a delete_empty_config(rom) step deletes the target and returns true
\* when the target exists and reading it yields no key/value pair; otherwise
\* it returns false and leaves every folder as it was.  When the step follows
\* remove_rom_config(rom, delete_if_empty=False) that returned
\* (removed, is_empty) = (True, True), it deletes the target and returns true.
C24_DeleteEmptyConfig ==
    [][\A rom_name \in RomNames :
          LET name == ConfigPath(rom_name)
          IN  (last'.op = "delete_empty_config" /\ last'.rom_name = rom_name)
              => /\ HoldsNoPair(name) => last'.ret = <<TRUE>> /\ DeletesOnly(name)
                 /\ ~HoldsNoPair(name) => last'.ret = <<FALSE>> /\ fs' = fs
                 /\ ( /\ last.op = "remove_rom_config"
                      /\ last.rom_name = rom_name
                      /\ last.args = <<FALSE>>
                      /\ last.ret = <<TRUE, TRUE>> )
                    => last'.ret = <<TRUE>> /\ name \notin DOMAIN OutAfter]_vars

\* delete_empty_config has just found pacman.zip.cfg without a key/value pair
\* in the export folder, deleted it and returned true
C24_Witness ==
    /\ last.op = "delete_empty_config"
    /\ last.rom_name = pacman
    /\ last.ret = <<TRUE>>
    /\ export_folder = Some(ExportDir)
    /\ ExportDir \in DOMAIN fs
    /\ ConfigPath(pacman) \notin DOMAIN fs[ExportDir]

(***************************************************************************)
(* C25: the arity of --fbneo-override and --mame-override.                 *)
(***************************************************************************)
\* the quadruple the claim gives an accepted list of values
AcceptedQuad(v) ==
    <<Some(v[1]), Some(v[2]),
      IF Len(v) = 4 THEN Some(v[3]) ELSE None,
      IF Len(v) = 4 THEN Some(v[4]) ELSE None>>

\* what the claim says of one override option of a run: with 2 or 4 values
\* the run goes on and a manager gets the quadruple; with any other number
\* the run returns 1 and no folder has changed
ArityRule(named, values, before, after, ret) ==
    (named /\ values # None) =>
        IF Len(values[1]) \in {2, 4}
        THEN /\ ret[1] = "return"
             /\ \E k \in 1..Len(ret[3]) : ret[3][k] = AcceptedQuad(values[1])
        ELSE /\ ret[1] = "return"
             /\ ret[2] = 1
             /\ after = before

\* C25: in every run of main_cli whose systems exist, an override option
\* with exactly 2 or 4 values is accepted (x and y null with 2 values, all
\* four set with 4), and one with 1, 3, 5 or more values ends the run with
\* the error and status 1 before any config file is written.
C25_OverrideArity ==
    [][last'.op = "main_cli" =>
          LET argv == last'.args[1]
          IN  /\ ArityRule(argv.fbneo, argv.fbneo_override, fs, fs', last'.ret)
              /\ ArityRule(argv.mame, argv.mame_override, fs, fs', last'.ret)]_vars

(***************************************************************************)
(* C26: remove_all_overrides against remove_rom_config on every target.    *)
(***************************************************************************)
\* remove_rom_config(rom, delete_if_empty=True) called once for each of the
\* config files, from the folder and the number of calls that returned
\* removed = True so far (the targets are distinct files, so the order of the
\* calls does not show)
RECURSIVE RemoveEach(_, _, _)
RemoveEach(dir, config_files, removed) ==
    IF config_files = {} THEN [dir |-> dir, removed |-> removed]
    ELSE LET config_file == CHOOSE f \in config_files : TRUE
             r == remove_rom_config(dir, SubSeq(config_file, 1, Len(config_file) - 2), TRUE)
         IN  RemoveEach(r.dir, config_files \ {config_file},
                        IF r.ret[1] THEN removed + 1 ELSE removed)

\* two folders hold the same files with the same key/value records (files
\* that are not configs: the same content)
SameRecords(a, b) ==
    /\ DOMAIN a = DOMAIN b
    /\ \A n \in DOMAIN a :
          IF EndsWith(n, <<".cfg">>)
          THEN read_config_file(a, n) = read_config_file(b, n)
          ELSE a[n] = b[n]

\* C26: a remove_all_overrides step leaves the output folder with the files
\* and key/value records that remove_rom_config(id, True), called once for
\* every *.zip.cfg of the folder before the step, would leave, and its
\* removed count is the number of those calls returning removed = True.
C26_RemoveAllIsRemoveEach ==
    [][(last'.op = "remove_all_overrides" /\ output_folder \in DOMAIN fs) =>
          LET each == RemoveEach(Out, Glob(Out, <<".zip", ".cfg">>), 0)
          IN  /\ SameRecords(OutAfter, each.dir)
              /\ last'.ret[1] = each.removed]_vars

(***************************************************************************)
(* C27: remove_rom_config(id, True) undoes update_rom_config.              *)
(***************************************************************************)
\* the output folder after remove_rom_config(rom_name, delete_if_empty=True)
\* is called on it
ThenRemoved(dir, rom_name) == remove_rom_config(dir, rom_name, TRUE).dir

\* C27: after an update_rom_config(rom) step on a target that held no
\* viewport key, remove_rom_config(rom, True) leaves the target with exactly
\* the key/value pairs it held before the update, leaves the other files as
\* they were, and a target that was absent before the update is absent again.
C27_RemoveUndoesApply ==
    [][\A rom_name \in RomNames :
          LET name == ConfigPath(rom_name)
          IN  ( /\ last'.op = "update_rom_config"
                /\ last'.rom_name = rom_name
                /\ output_folder \in DOMAIN fs
                /\ ~HoldsViewportKey(Out, name) )
              => LET after == ThenRemoved(OutAfter, rom_name)
                 IN  /\ Record(after, name) = Record(Out, name)
                     /\ name \notin DOMAIN Out => name \notin DOMAIN after
                     /\ \A other \in DOMAIN Out \ {name} :
                           other \in DOMAIN after /\ after[other] = Out[other]]_vars

\* update_rom_config has just left homebrew's config with the five viewport
\* keys beside other keys, and remove_rom_config(homebrew, True) keeps the
\* file with exactly the other keys
C27_Witness ==
    /\ last.op = "update_rom_config"
    /\ last.rom_name = homebrew
    /\ output_folder \in DOMAIN fs
    /\ ViewportKeys \subseteq DOMAIN Record(Out, ConfigPath(homebrew))
    /\ DOMAIN Record(Out, ConfigPath(homebrew)) # ViewportKeys
    /\ ConfigPath(homebrew) \in DOMAIN ThenRemoved(Out, homebrew)
    /\ DOMAIN Record(ThenRemoved(Out, homebrew), ConfigPath(homebrew))
          = DOMAIN Record(Out, ConfigPath(homebrew)) \ ViewportKeys

(***************************************************************************)
(* C28: a backup and the process_roms that follows it.                     *)
(***************************************************************************)
\* the files process_roms enumerates in a state's ROM folder
Enumerated(files) == Glob(files[rom_folder], <<".zip">>)

\* the (processed, skipped) counts process_roms may return on the folders,
\* and the callback sequences it may make, over the orders of the glob
CountsOn(files) ==
    { process_loop(files[rom_folder], rom_files, 0, 0).ret :
        rom_files \in Enumerations(Enumerated(files)) }

CallbacksOn(files) ==
    { [k \in 1..Len(rom_files) |-> <<k, Len(rom_files), Stem(rom_files[k])>>] :
        rom_files \in Enumerations(Enumerated(files)) }

\* C28: a backup_configs() step without a path, on a manager without export
\* folder, leaves process_roms with the same files to enumerate, the same
\* (processed, skipped) counts and the same callback sequences as before it.
C28_BackupNotEnumerated ==
    [][( /\ last'.op = "backup_configs"
         /\ last'.args = <<None>>
         /\ export_folder = None
         /\ rom_folder \in DOMAIN fs )
       => /\ Enumerated(fs') = Enumerated(fs)
          /\ CountsOn(fs') = CountsOn(fs)
          /\ CallbacksOn(fs') = CallbacksOn(fs)]_vars

(***************************************************************************)
(* C29, C30: the manager a batch operation of the session runs on.         *)
(***************************************************************************)
UiBatch == {"process_current_system", "remove_current_system_overrides"}

\* a batch operation has just run on the retained manager
BatchRan == last.op \in UiBatch /\ last.ret = <<"ran">>

\* C29: when a batch operation has just run for the system, the manager it
\* ran on has the catalog file, the export folder and the override quadruple
\* of the system's settings (its ROM folder is the system's in every state).
C29_ManagerMatchesSettings ==
    BatchRan =>
        /\ system.manager
        /\ system.dat_file = Some(dat_file)
        /\ system.rom_folder = Some(rom_folder)
        /\ system.export_folder = export_folder
        /\ <<system.override_width, system.override_height,
             system.override_x, system.override_y>>
              = <<override_width, override_height, override_x, override_y>>

\* C30: a batch operation step that ends because the catalog failed to parse
\* retains no manager, and one that runs does so on a manager whose catalog
\* was parsed: the catalog is well-formed and the manager holds what parsing
\* it gives.
C30_NoBatchOnUnparsedCatalog ==
    [][last'.op \in UiBatch =>
          /\ ( /\ last'.ret = <<"not initialized">>
               /\ system.dat_file # None
               /\ system.rom_folder # None )
             => ~system'.manager
          /\ last'.ret = <<"ran">>
             => /\ dat_file'.kind = "xml"
                /\ game_resolutions'
                      = parse_dat_file(dat_file', EmptyConfig, EmptyConfig).resolutions]_vars

====
